---- MODULE Spec2Model ----
(***************************************************************************)
(* chat-gateway: key manager with persistence, key store, message cipher,  *)
(* room/message core and stream fan-out, modelled from the Go sources.     *)
(*                                                                         *)
(* Byte slices that the Go code shares by reference (Key.Value) live in    *)
(* keyHeap; a caller holding such a slice holds an index into keyHeap, so  *)
(* an in-place wipe is seen by every holder.  DEK values are naturals:     *)
(* 0 is a zeroed buffer, every rand.Read draws a value never seen before.  *)
(***************************************************************************)
EXTENDS Integers, Sequences, FiniteSets, TLC

\* ------------------------------------------------------------------ bounds
MaxVersion == 3       \* highest key version a room reaches
MaxClock == 2         \* the clock stops advancing here
MaxKeyAge == 2        \* rotationPolicy.MaxKeyAge in clock units (30 days in the source)
RotationInterval == 1 \* rotationPolicy.RotationInterval in clock units (24 h in the source)
MaxCalls == 4         \* key-manager calls started in one behaviour

Rooms == {"r1", "r2"}
Threads == {"t1", "t2"}
AutoThread == "auto"
KMThreads == Threads \cup {AutoThread}
Writers == {"w1", "w2"}

\* --------------------------------------------------------------- variables
VARIABLES
    keyHeap,          \* the *Key objects ever allocated: Seq of [ID, Value, CreatedAt, RotatedAt, Version, Status]
    keys,             \* km.keys: roomID -> index into keyHeap, NoKey when absent
    oldKeys,          \* km.oldKeys: roomID -> Seq of indices into keyHeap
    mu,               \* km.mu: the thread holding the write lock, or "free"
    encryption_keys,  \* the KeyStore collection: a set of KeyDocument
    dekGen,           \* how many DEKs crypto/rand has produced (the last value drawn)
    policyEnabled,    \* km.rotationPolicy.Enabled
    now,              \* time.Now()
    pc,               \* per thread: where it stands in its current call
    local,            \* per thread: the locals of its current call
    ret,              \* per thread: what its last completed call returned
    calls,            \* key-manager calls started so far
    created,          \* ghost: per room, DEKs generated by createRoomKeyUnsafe
    rotated           \* ghost: per room, rotateKey calls that found a key under the lock

kmVars == <<keyHeap, keys, oldKeys, mu, encryption_keys, dekGen, policyEnabled,
            now, pc, local, ret, calls, created, rotated>>

\* --------------------------------------------------- chat: bounds and state
MaxMsgs == 3           \* messages ever created in the room
MaxChatCalls == 4      \* RPC calls started in one behaviour
maxLimit == 2          \* GetByRoomID's largest page (100 in the source)
defaultLimit == 1      \* GetByRoomID's page when the request names none (20 in the source)
StreamFetchLimit == 2  \* the page a stream tick fetches (100 in the source)
initialFetchLimit == 2 \* the page a stream session seeds from (100 in the source)
TicksPerSecond == 2    \* resolution of time.Now() against the one-second RFC3339 cursor

ChatRoom == "r1"
Users == {"alice", "bob"}
Senders == {"alice"}
Contents == {"hello"}
MsgTypes == {"text"}

VARIABLES
    messages,   \* the messages collection, in insertion order:
                \* Seq of [ID, SenderID, Content, Type, ReadBy, CreatedAt]
    original,   \* ghost: original[i] is the plaintext given to SendMessage for message i
    clock,      \* time.Now() of the message store, in ticks
    roomLast,   \* the room document's [LastMessage, LastMessageAt]
    cpc,        \* per caller: where it stands in its RPC
    clocal,     \* per caller: the locals of its RPC
    resp,       \* per caller: the last SendMessage response
    page,       \* the last GetMessages response
    unread,     \* the last GetUnreadCount response: [UserId, Success, Count], and
                \* ghost call: the number of the call that produced it
    session,    \* the StreamMessages session: open, seen, what it emitted
    readDone    \* ghost: <<caller, message id, user>> of the completed MarkAsRead calls

chatVars == <<messages, original, clock, roomLast, cpc, clocal, resp, page, unread, session, readDone>>

\* -------------------------------------------------- rooms: bounds and state
MaxRooms == 3      \* room documents ever created
MaxRoomCalls == 4  \* CreateRoom calls started in one behaviour
checkLimit == 1    \* findExistingDirectChat's scan of the owner's rooms (100 in the source)

roomTypeDirect == "direct"
roomTypeGroup == "group"
MemberLists == {<<"alice", "bob">>, <<"bob", "alice">>, <<"bob">>}
RoomRequests ==
    { [Type |-> roomTypeDirect, OwnerId |-> "alice", MemberIds |-> l] : l \in MemberLists }
    \cup { [Type |-> roomTypeDirect, OwnerId |-> "bob", MemberIds |-> <<"alice", "bob">>],
           [Type |-> roomTypeGroup, OwnerId |-> "alice", MemberIds |-> <<"alice", "bob">>] }

VARIABLES
    chat_rooms,  \* the chat_rooms collection, in insertion order:
                 \* Seq of [ID, Type, OwnerID, Members, LastMessage, LastMessageAt]
    rclock,      \* time.Now() of the room store
    rpc,         \* per caller: where it stands in CreateRoom, JoinRoom or LeaveRoom
    rlocal,      \* per caller: the request and, for the checks, what the call met
    rdone,       \* ghost: the last two completed room calls, oldest first
    listing,     \* the last ListUserRooms response: [UserId, Limit, Success, Cursor, HasMore];
                 \* ghost got: the ids of the rooms returned since the walk began,
                 \* ghost base: Len(chat_rooms) when the walk began
    httpStatus,  \* 400 once the HTTP adapter has rejected a request by itself, 0 before
    sse,         \* the SSEConnectionLimiter: connections, lastConnect, currentTotalConns,
                 \* its clock time, and per client where its request stands (at)
    rotation,    \* auto rotation: km.running, km.stopChan (the number of the channel),
                 \* the closed channels, and the autoRotationLoop goroutines ever
                 \* started: Seq of [at, born, chan]
    saving,      \* per writer of the key store: the document of its SaveKey between the
                 \* UpdateMany and the ReplaceOne, NoDoc otherwise
    adapter,     \* the SSE adapter of one stream request: where handleSSELoop stands,
                 \* whether the client is gone, msgChan, errChan, the receiving
                 \* goroutine (position, message in hand, messages received so far)
                 \* and what was written to the client
    cipher       \* the last use of the AES-CTR cipher: the key and plaintext given to
                 \* Encrypt, its envelope and error, the key given to Decrypt, its
                 \* result and error

roomVars == <<chat_rooms, rclock, rpc, rlocal, rdone, listing, httpStatus, sse, rotation, cipher, saving, adapter>>

\* --------------------------------------------------------------- key types
NoKey == 0
NoDoc == [RoomID |-> "none"]
KeyStatusActive == "active"
KeyStatusArchived == "archived"
KeyStatusRevoked == "revoked"
masterKey == "kek"
Garbage == "garbage"

\* What a caller holds after a call returned a []byte: either the Key.Value
\* slice of a heap object (alias) or a private copy (alias = NoKey).
Alias(k) == [alias |-> k, val |-> 0, err |-> FALSE, slow |-> FALSE]
Copy(v) == [alias |-> NoKey, val |-> v, err |-> FALSE, slow |-> TRUE]
Failure == [alias |-> NoKey, val |-> 0, err |-> TRUE, slow |-> TRUE]
Slow(r) == [r EXCEPT !.slow = TRUE]
NoRet == [room |-> "none", op |-> "none", alias |-> NoKey, val |-> 0, err |-> FALSE,
          slow |-> FALSE]

\* The bytes a caller reads through what it holds, given the heap as it is now.
BytesIn(heap, r) == IF r.alias # NoKey THEN heap[r.alias].Value ELSE r.val

\* encryptRoomKey: AES-256-CTR of the DEK under the master key, IV prepended.
encryptRoomKey(roomKey) == [kek |-> masterKey, dek |-> roomKey]

\* decryptRoomKey: CTR under the wrong KEK yields unrelated bytes.
decryptRoomKey(encryptedKey) ==
    IF encryptedKey.kek = masterKey THEN encryptedKey.dek ELSE Garbage

\* --------------------------------------------------------------- key store
\* saveKeyWithContext, first write: UpdateMany demoting the other active versions.
DeactivateOldKeysNever(coll, doc) == coll

DeactivateOldKeys(coll, doc) ==
    IF doc.IsActive
    THEN { IF d.RoomID = doc.RoomID /\ d.IsActive /\ d.KeyVersion # doc.KeyVersion
           THEN [d EXCEPT !.IsActive = FALSE] ELSE d : d \in coll }
    ELSE coll

\* saveKeyWithContext, second write: ReplaceOne with upsert on (room_id, key_version).
ReplaceOneUpsert(coll, doc) ==
    { d \in coll : ~(d.RoomID = doc.RoomID /\ d.KeyVersion = doc.KeyVersion) } \cup {doc}

saveKeyWithContext(coll, doc) == ReplaceOneUpsert(DeactivateOldKeys(coll, doc), doc)

\* GetActiveKey: FindOne on {room_id, is_active: true}; any matching document.
GetActiveKey(coll, roomID) ==
    LET hits == { d \in coll : d.RoomID = roomID /\ d.IsActive }
    IN  IF hits = {} THEN {NoDoc} ELSE hits

\* ------------------------------------------------------------- key manager
CacheHit(heap, ks, roomID) ==
    ks[roomID] # NoKey /\ heap[ks[roomID]].Status = KeyStatusActive

\* createRoomKeyUnsafe up to the SaveKey call: the new Key and its document.
NewRoomKey(roomID, keyValue, t) ==
    [ID |-> roomID, Value |-> keyValue, CreatedAt |-> t, RotatedAt |-> t,
     Version |-> 1, Status |-> KeyStatusActive]

NewRoomKeyDoc(roomID, keyValue, t) ==
    [RoomID |-> roomID, KeyVersion |-> 1, EncryptedKey |-> encryptRoomKey(keyValue),
     CreatedAt |-> t, RotatedAt |-> t, IsActive |-> TRUE, ExpiresAt |-> t + MaxKeyAge]

\* GetOrCreateRoomKey, document found: the Key loaded into the cache.
LoadedKey(roomID, keyDoc) ==
    [ID |-> roomID, Value |-> decryptRoomKey(keyDoc.EncryptedKey),
     CreatedAt |-> keyDoc.CreatedAt, RotatedAt |-> keyDoc.RotatedAt,
     Version |-> keyDoc.KeyVersion, Status |-> KeyStatusActive]

\* rotateKey up to the SaveKey call.
RotatedKey(oldKey, newKeyValue, t) ==
    [ID |-> oldKey.ID, Value |-> newKeyValue, CreatedAt |-> oldKey.CreatedAt,
     RotatedAt |-> t, Version |-> oldKey.Version + 1, Status |-> KeyStatusActive]

\* A rotation that stores the new key under the old key's version.
RotatedKeyDocSameVersion(oldKey, newKeyValue, t) ==
    [RoomID |-> oldKey.ID, KeyVersion |-> oldKey.Version,
     EncryptedKey |-> encryptRoomKey(newKeyValue), CreatedAt |-> oldKey.CreatedAt,
     RotatedAt |-> t, IsActive |-> TRUE, ExpiresAt |-> t + MaxKeyAge]

RotatedKeyDoc(oldKey, newKeyValue, t) ==
    [RoomID |-> oldKey.ID, KeyVersion |-> oldKey.Version + 1,
     EncryptedKey |-> encryptRoomKey(newKeyValue), CreatedAt |-> oldKey.CreatedAt,
     RotatedAt |-> t, IsActive |-> TRUE, ExpiresAt |-> t + MaxKeyAge]

KeepOldKeys == 2  \* rotationPolicy.KeepOldKeys (5 in the source)

\* cleanupOldKeys: keep the last KeepOldKeys archived keys.
cleanupOldKeys(oldKeyList) ==
    IF Len(oldKeyList) <= KeepOldKeys THEN oldKeyList
    ELSE SubSeq(oldKeyList, Len(oldKeyList) - KeepOldKeys + 1, Len(oldKeyList))

\* rotateKey after SaveKey succeeded: wipe and archive the old key, install the
\* new one.  newKey.Value is the generation buffer newKeyValue itself, which the
\* deferred wipe zeroes when rotateKey returns.
RotateHeap(heap, old, newKey) ==
    Append([heap EXCEPT ![old].Value = 0, ![old].Status = KeyStatusArchived],
           [newKey EXCEPT !.Value = 0])

\* shouldRotateKey
shouldRotateKey(key, t) ==
    /\ policyEnabled
    /\ \/ (MaxKeyAge > 0 /\ t - key.CreatedAt > MaxKeyAge)
       \/ (RotationInterval > 0 /\ t - key.RotatedAt > RotationInterval)


\* --------------------------------------------------- key manager: the calls
Idle(t) == pc[t] = "idle"

\* sync.RWMutex: Lock and RLock both wait while a writer holds the lock.
LockFreeAlways(m) == TRUE

LockFree(m) == m = "free"

Return(t, op, roomID, r) ==
    /\ pc' = [pc EXCEPT ![t] = "idle"]
    /\ local' = [local EXCEPT ![t] = [room |-> "none"]]
    /\ ret' = [ret EXCEPT ![t] = [room |-> roomID, op |-> op, alias |-> r.alias,
                                  val |-> r.val, err |-> r.err, slow |-> r.slow]]

\* GetOrCreateRoomKey, fast path: RLock; key, exists := km.keys[roomID]; RUnlock.
GetOrCreateRLock(t, roomID) ==
    /\ UNCHANGED <<chatVars, roomVars>>
    /\ Idle(t) /\ t \in Threads
    /\ LockFree(mu)
    /\ pc' = [pc EXCEPT ![t] = "goc_check"]
    /\ local' = [local EXCEPT ![t] = [room |-> roomID, key |-> keys[roomID]]]
    /\ calls < MaxCalls /\ calls' = calls + 1
    /\ UNCHANGED <<keyHeap, keys, oldKeys, mu, encryption_keys, dekGen, policyEnabled,
                   now, ret, created, rotated>>

\* GetOrCreateRoomKey, fast path: the status check made after RUnlock.
GetOrCreateCheck(t) ==
    /\ UNCHANGED <<chatVars, roomVars>>
    /\ pc[t] = "goc_check"
    /\ IF local[t].key # NoKey /\ keyHeap[local[t].key].Status = KeyStatusActive
       THEN Return(t, "goc", local[t].room, Alias(local[t].key))
       ELSE /\ pc' = [pc EXCEPT ![t] = "goc_lock"]
            /\ UNCHANGED <<local, ret>>
    /\ UNCHANGED <<calls, keyHeap, keys, oldKeys, mu, encryption_keys, dekGen, policyEnabled,
                   now, created, rotated>>

\* GetOrCreateRoomKey, slow path under the write lock: second check, load from
\* the store, or createRoomKeyUnsafe.  SaveKey runs its two writes in one
\* transaction (txn) or, on a store without transactions, one after the other.
GetOrCreateLocked(t) ==
    /\ UNCHANGED <<chatVars, roomVars>>
    /\ pc[t] = "goc_lock"
    /\ LockFree(mu)
    /\ LET roomID == local[t].room IN
       IF CacheHit(keyHeap, keys, roomID)
       THEN /\ Return(t, "goc", roomID, Slow(Alias(keys[roomID])))
            /\ UNCHANGED <<keyHeap, keys, oldKeys, mu, encryption_keys, dekGen, created>>
       ELSE \E keyDoc \in GetActiveKey(encryption_keys, roomID) :
            IF keyDoc # NoDoc
            THEN IF keyDoc.EncryptedKey.kek # masterKey
                 THEN /\ Return(t, "goc", roomID, Failure)
                      /\ UNCHANGED <<keyHeap, keys, oldKeys, mu, encryption_keys, dekGen, created>>
                 ELSE /\ keyHeap' = Append(keyHeap, LoadedKey(roomID, keyDoc))
                      /\ keys' = [keys EXCEPT ![roomID] = Len(keyHeap) + 1]
                      /\ Return(t, "goc", roomID, Slow(Alias(Len(keyHeap) + 1)))
                      /\ UNCHANGED <<oldKeys, mu, encryption_keys, dekGen, created>>
            ELSE LET keyValue == dekGen + 1
                     key == NewRoomKey(roomID, keyValue, now)
                     keyDoc1 == NewRoomKeyDoc(roomID, keyValue, now)
                 IN  /\ dekGen' = keyValue
                     /\ created' = [created EXCEPT ![roomID] = @ + 1]
                     /\ \E txn \in BOOLEAN :
                        IF txn
                        THEN /\ encryption_keys' = saveKeyWithContext(encryption_keys, keyDoc1)
                             /\ keyHeap' = Append(keyHeap, key)
                             /\ keys' = [keys EXCEPT ![roomID] = Len(keyHeap) + 1]
                             /\ Return(t, "goc", roomID, Copy(keyValue))
                             /\ UNCHANGED <<oldKeys, mu>>
                        ELSE /\ encryption_keys' = DeactivateOldKeys(encryption_keys, keyDoc1)
                             /\ mu' = t
                             /\ pc' = [pc EXCEPT ![t] = "goc_replace"]
                             /\ local' = [local EXCEPT ![t] =
                                    [room |-> roomID, key |-> key, doc |-> keyDoc1]]
                             /\ UNCHANGED <<keyHeap, keys, oldKeys, ret>>
    /\ UNCHANGED <<calls, policyEnabled, now, rotated>>

\* createRoomKeyUnsafe, non-transactional SaveKey: the ReplaceOne, then the
\* cache insert and the unlock; the caller gets keyValueCopy.
GetOrCreateReplace(t) ==
    /\ UNCHANGED <<chatVars, roomVars>>
    /\ pc[t] = "goc_replace"
    /\ mu = t
    /\ encryption_keys' = ReplaceOneUpsert(encryption_keys, local[t].doc)
    /\ keyHeap' = Append(keyHeap, local[t].key)
    /\ keys' = [keys EXCEPT ![local[t].room] = Len(keyHeap) + 1]
    /\ mu' = "free"
    /\ Return(t, "goc", local[t].room, Copy(local[t].key.Value))
    /\ UNCHANGED <<calls, oldKeys, dekGen, policyEnabled, now, created, rotated>>

\* ForceRotateKey: RLock; _, exists := km.keys[roomID]; RUnlock.
ForceRotateKey(t, roomID) ==
    /\ UNCHANGED <<chatVars, roomVars>>
    /\ Idle(t) /\ t \in Threads
    /\ LockFree(mu)
    /\ IF keys[roomID] = NoKey
       THEN Return(t, "rotate", roomID, Failure)
       ELSE /\ pc' = [pc EXCEPT ![t] = "rot_lock"]
            /\ local' = [local EXCEPT ![t] = [room |-> roomID, todo |-> {}]]
            /\ UNCHANGED ret
    /\ calls < MaxCalls /\ calls' = calls + 1
    /\ UNCHANGED <<keyHeap, keys, oldKeys, mu, encryption_keys, dekGen, policyEnabled,
                   now, created, rotated>>

\* checkAndRotateKeys: under RLock, collect the rooms whose key shouldRotateKey.
checkAndRotateKeys(t) ==
    /\ UNCHANGED <<chatVars, roomVars>>
    /\ Idle(t) /\ t = AutoThread
    /\ LockFree(mu)
    /\ LET keysToRotate == { r \in Rooms : keys[r] # NoKey /\ shouldRotateKey(keyHeap[keys[r]], now) }
       IN  /\ keysToRotate # {}
           /\ \E r \in keysToRotate :
                /\ pc' = [pc EXCEPT ![t] = "rot_lock"]
                /\ local' = [local EXCEPT ![t] = [room |-> r, todo |-> keysToRotate \ {r}]]
    /\ calls < MaxCalls /\ calls' = calls + 1
    /\ UNCHANGED <<keyHeap, keys, oldKeys, mu, encryption_keys, dekGen, policyEnabled,
                   now, ret, created, rotated>>

\* After one rotateKey returned: ForceRotateKey returns, checkAndRotateKeys
\* goes on with the next room of keysToRotate.
RotateDone(t, roomID, r) ==
    IF local[t].todo = {}
    THEN Return(t, "rotate", roomID, r)
    ELSE \E nxt \in local[t].todo :
            /\ pc' = [pc EXCEPT ![t] = "rot_lock"]
            /\ local' = [local EXCEPT ![t] = [room |-> nxt, todo |-> local[t].todo \ {nxt}]]
            /\ UNCHANGED ret

\* What the cache holds for a room that has a key: the key object, its bytes and
\* version, and the ring of archived keys.
CacheOf(heap, ks, olds, roomID) ==
    [key |-> ks[roomID], Value |-> heap[ks[roomID]].Value,
     Version |-> heap[ks[roomID]].Version, oldKeys |-> olds[roomID]]

\* rotateKey under the write lock, up to and including the first store write.
\* fail names the step that fails: rand.Read ("generate"), or SaveKey in its
\* non-transactional form at the UpdateMany ("save"); each returns the error
\* before the cache is touched.
rotateKey(t) ==
    /\ UNCHANGED <<chatVars, roomVars>>
    /\ pc[t] = "rot_lock"
    /\ LockFree(mu)
    /\ LET roomID == local[t].room IN
       IF keys[roomID] = NoKey
       THEN /\ RotateDone(t, roomID, Failure)
            /\ UNCHANGED <<keyHeap, keys, oldKeys, mu, encryption_keys, dekGen, rotated>>
       ELSE LET old == keys[roomID]
                oldKey == keyHeap[old]
                newKeyValue == dekGen + 1
                newKey == RotatedKey(oldKey, newKeyValue, now)
                newKeyDoc == RotatedKeyDoc(oldKey, newKeyValue, now)
            IN  /\ oldKey.Version < MaxVersion
                /\ rotated' = [rotated EXCEPT ![roomID] = @ + 1]
                /\ \E txn \in BOOLEAN, fail \in {"none", "generate", "save"} :
                   IF fail = "generate"
                   THEN /\ txn
                        /\ RotateDone(t, roomID, Failure)
                        /\ UNCHANGED <<keyHeap, keys, oldKeys, mu, encryption_keys, dekGen>>
                   ELSE IF fail = "save"
                   THEN /\ ~txn
                        /\ dekGen' = newKeyValue
                        /\ RotateDone(t, roomID, Failure)
                        /\ UNCHANGED <<keyHeap, keys, oldKeys, mu, encryption_keys>>
                   ELSE IF txn
                   THEN /\ dekGen' = newKeyValue
                        /\ encryption_keys' = saveKeyWithContext(encryption_keys, newKeyDoc)
                        /\ keyHeap' = RotateHeap(keyHeap, old, newKey)
                        /\ oldKeys' = [oldKeys EXCEPT ![roomID] = cleanupOldKeys(Append(@, old))]
                        /\ keys' = [keys EXCEPT ![roomID] = Len(keyHeap) + 1]
                        /\ RotateDone(t, roomID, Copy(0))
                        /\ UNCHANGED mu
                   ELSE /\ dekGen' = newKeyValue
                        /\ encryption_keys' = DeactivateOldKeys(encryption_keys, newKeyDoc)
                        /\ mu' = t
                        /\ pc' = [pc EXCEPT ![t] = "rot_replace"]
                        /\ local' = [local EXCEPT ![t] =
                               [room |-> roomID, todo |-> local[t].todo,
                                key |-> newKey, doc |-> newKeyDoc,
                                before |-> CacheOf(keyHeap, keys, oldKeys, roomID)]]
                        /\ UNCHANGED <<keyHeap, keys, oldKeys, ret>>
    /\ UNCHANGED <<calls, policyEnabled, now, created>>

\* rotateKey, non-transactional SaveKey: the ReplaceOne, then the archive of the
\* old key, the cache update, the deferred wipe and the unlock.  When the
\* ReplaceOne fails (saveErr) rotateKey returns the error from there.
rotateKeyReplace(t, saveErr) ==
    /\ UNCHANGED <<chatVars, roomVars>>
    /\ pc[t] = "rot_replace"
    /\ mu = t
    /\ LET roomID == local[t].room
           old == keys[roomID]
       IN  IF saveErr
           THEN /\ mu' = "free"
                /\ RotateDone(t, roomID, Failure)
                /\ UNCHANGED <<encryption_keys, keyHeap, oldKeys, keys>>
           ELSE /\ encryption_keys' = ReplaceOneUpsert(encryption_keys, local[t].doc)
                /\ keyHeap' = RotateHeap(keyHeap, old, local[t].key)
                /\ oldKeys' = [oldKeys EXCEPT ![roomID] = cleanupOldKeys(Append(@, old))]
                /\ keys' = [keys EXCEPT ![roomID] = Len(keyHeap) + 1]
                /\ mu' = "free"
                /\ RotateDone(t, roomID, Copy(0))
    /\ UNCHANGED <<calls, dekGen, policyEnabled, now, created, rotated>>

\* time passes
Tick ==
    /\ UNCHANGED <<chatVars, roomVars>>
    /\ now < MaxClock
    /\ now' = now + 1
    /\ UNCHANGED <<calls, keyHeap, keys, oldKeys, mu, encryption_keys, dekGen, policyEnabled,
                   pc, local, ret, created, rotated>>

\* SetRotationPolicy: under the write lock.
SetRotationPolicy(enabled) ==
    /\ UNCHANGED <<chatVars, roomVars>>
    /\ LockFree(mu)
    /\ policyEnabled # enabled
    /\ policyEnabled' = enabled
    /\ calls < MaxCalls /\ calls' = calls + 1
    /\ UNCHANGED <<keyHeap, keys, oldKeys, mu, encryption_keys, dekGen, now, pc, local, ret,
                   created, rotated>>

KMNext ==
    \/ \E t \in Threads, r \in Rooms : GetOrCreateRLock(t, r)
    \/ \E t \in Threads : GetOrCreateCheck(t)
    \/ \E t \in Threads : GetOrCreateLocked(t)
    \/ \E t \in Threads : GetOrCreateReplace(t)
    \/ \E t \in Threads, r \in Rooms : ForceRotateKey(t, r)
    \/ checkAndRotateKeys(AutoThread)
    \/ \E t \in KMThreads : rotateKey(t)
    \/ \E t \in KMThreads, saveErr \in BOOLEAN : rotateKeyReplace(t, saveErr)
    \/ Tick
    \/ \E enabled \in BOOLEAN : SetRotationPolicy(enabled)


\* ----------------------------------------- key manager, one call at a time
\* The chat handlers call the key manager and run on while holding what it
\* returned; here a call is taken whole.  An outcome is the key manager's state
\* after the call and the bytes the caller reads.
KMState(heap, ks, olds, coll, gen, made, key, err) ==
    [heap |-> heap, ks |-> ks, olds |-> olds, coll |-> coll, gen |-> gen,
     made |-> made, key |-> key, err |-> err]

GetOrCreateRoomKey(roomID) ==
    IF CacheHit(keyHeap, keys, roomID)
    THEN { KMState(keyHeap, keys, oldKeys, encryption_keys, dekGen, 0,
                   keyHeap[keys[roomID]].Value, FALSE) }
    ELSE { IF keyDoc # NoDoc
           THEN IF keyDoc.EncryptedKey.kek # masterKey
                THEN KMState(keyHeap, keys, oldKeys, encryption_keys, dekGen, 0, 0, TRUE)
                ELSE KMState(Append(keyHeap, LoadedKey(roomID, keyDoc)),
                             [keys EXCEPT ![roomID] = Len(keyHeap) + 1], oldKeys,
                             encryption_keys, dekGen, 0,
                             decryptRoomKey(keyDoc.EncryptedKey), FALSE)
           ELSE KMState(Append(keyHeap, NewRoomKey(roomID, dekGen + 1, now)),
                        [keys EXCEPT ![roomID] = Len(keyHeap) + 1], oldKeys,
                        saveKeyWithContext(encryption_keys,
                                           NewRoomKeyDoc(roomID, dekGen + 1, now)),
                        dekGen + 1, 1, dekGen + 1, FALSE)
           : keyDoc \in GetActiveKey(encryption_keys, roomID) }

\* ForceRotateKey of a room whose key is cached, taken whole.
RotateRoomKey(roomID) ==
    LET old == keys[roomID]
        oldKey == keyHeap[old]
        newKeyValue == dekGen + 1
    IN  KMState(RotateHeap(keyHeap, old, RotatedKey(oldKey, newKeyValue, now)),
                [keys EXCEPT ![roomID] = Len(keyHeap) + 1],
                [oldKeys EXCEPT ![roomID] = cleanupOldKeys(Append(@, old))],
                saveKeyWithContext(encryption_keys, RotatedKeyDoc(oldKey, newKeyValue, now)),
                newKeyValue, 0, 0, FALSE)

KMApply(roomID, o) ==
    /\ keyHeap' = o.heap
    /\ keys' = o.ks
    /\ oldKeys' = o.olds
    /\ encryption_keys' = o.coll
    /\ dekGen' = o.gen
    /\ created' = [created EXCEPT ![roomID] = @ + o.made]

kmIdle == <<mu, policyEnabled, now, pc, local, ret>>

elsewhere == <<kmIdle, roomVars>>

kmCache == <<keyHeap, keys, oldKeys, encryption_keys, dekGen, created>>

\* ------------------------------------------------------------ the cipher
\* AES-256-CTR under the room key: the envelope names the key it was made with;
\* the random IV plays no part in what is checked here.
Encrypt(key, plaintext) == [key |-> key, pt |-> plaintext]

\* CTR carries no authentication: under another key Decrypt returns unrelated
\* bytes and no error.
Decrypt(key, ciphertext) == IF ciphertext.key = key THEN ciphertext.pt ELSE Garbage

decryptFailedText == "[decrypt failed]"
messageFormatErrorText == "[format error]"
messageText == "[message]"
systemSenderID == "system"

\* DecryptMessage as the handlers use it: the room's current key, then
\* Decrypt; decryptFailedText when the key manager fails; messageFormatErrorText
\* when the bytes are no valid UTF-8 (utf8ok tells whether unrelated bytes
\* happen to be valid).
DecryptForResponseFailed(msg, o, utf8ok) == decryptFailedText

DecryptForResponse(msg, o, utf8ok) ==
    IF msg.Type = systemSenderID THEN msg.Content
    ELSE IF o.err THEN decryptFailedText
    ELSE IF Decrypt(o.key, msg.Content) = Garbage /\ ~utf8ok THEN messageFormatErrorText
    ELSE Decrypt(o.key, msg.Content)

\* ------------------------------------------------------- the message store
NoCursor == -1

\* time.Format(RFC3339) keeps whole seconds; time.Parse gives the second's start.
FormatRFC3339(t) == t \div TicksPerSecond

ParseRFC3339(c) == c * TicksPerSecond

ClampLimit(limit) ==
    IF limit <= 0 THEN defaultLimit ELSE IF limit > maxLimit THEN maxLimit ELSE limit

\* GetByRoomID: created_at descending, limit + 1 fetched, the extra one dropped.
GetByRoomID(msgs, limit, cursor) ==
    LET lim == ClampLimit(limit)
        matching == SelectSeq(msgs, LAMBDA m : cursor = NoCursor \/ m.CreatedAt < ParseRFC3339(cursor))
        n == Len(matching)
        fetched == [i \in 1..(IF n < lim + 1 THEN n ELSE lim + 1) |-> matching[n - i + 1]]
        hasMore == Len(fetched) > lim
        found == IF hasMore THEN SubSeq(fetched, 1, lim) ELSE fetched
    IN  [messages |-> found,
         hasMore |-> hasMore,
         nextCursor |-> IF hasMore /\ Len(found) > 0
                        THEN FormatRFC3339(found[Len(found)].CreatedAt) ELSE NoCursor]

\* MarkAsRead's filter on one document: read_by.user_id $ne userID.
UnreadByAlways(msg, userID) == TRUE

UnreadBy(msg, userID) == \A i \in 1..Len(msg.ReadBy) : msg.ReadBy[i] # userID

\* How often userID occurs in a list of user ids.
CountOf(userID, readByList) ==
    Cardinality({ i \in 1..Len(readByList) : readByList[i] = userID })

\* MarkAsRead's update of one document, filter and $push in one step.
PushReadBy(msg, userID) ==
    IF UnreadBy(msg, userID) THEN [msg EXCEPT !.ReadBy = Append(@, userID)] ELSE msg

\* ------------------------------------------------------------ the handlers
RECURSIVE cleanReadBy(_, _)
cleanReadBy(readByList, senderID) ==
    IF readByList = <<>> THEN <<>>
    ELSE LET front == cleanReadBy(SubSeq(readByList, 1, Len(readByList) - 1), senderID)
             item == readByList[Len(readByList)]
         IN  IF item = senderID \/ (\E i \in 1..Len(front) : front[i] = item)
             THEN front ELSE Append(front, item)

rawReadBy(readByList, senderID) == readByList

generateLastMessagePreview(msgType, content) ==
    IF msgType = "text" THEN content ELSE messageText

ChatMessage(msg, content, readBy) ==
    [Id |-> msg.ID, SenderId |-> msg.SenderID, Content |-> content, Type |-> msg.Type,
     CreatedAt |-> msg.CreatedAt \div TicksPerSecond, ReadBy |-> readBy]

CIdle(c) == cpc[c] = "idle"

NoResp == [Success |-> FALSE, ChatMessage |-> [Id |-> 0]]

\* SendMessage, createEncryptedMessage: EncryptMessage, then MessageStore.Create.
createEncryptedMessage(c, sender, content, type) ==
    /\ CIdle(c)
    /\ calls < MaxChatCalls /\ calls' = calls + 1
    /\ Len(messages) < MaxMsgs
    /\ \E o \in GetOrCreateRoomKey(ChatRoom) :
         /\ KMApply(ChatRoom, o)
         /\ IF o.err
            THEN /\ resp' = [resp EXCEPT ![c] = NoResp]
                 /\ UNCHANGED <<messages, original, clock, cpc, clocal>>
            ELSE LET message == [ID |-> Len(messages) + 1, SenderID |-> sender,
                                 Content |-> Encrypt(o.key, content), Type |-> type,
                                 ReadBy |-> <<>>, CreatedAt |-> clock + 1]
                 IN  /\ messages' = Append(messages, message)
                     /\ original' = Append(original, content)
                     /\ clock' = clock + 1
                     /\ cpc' = [cpc EXCEPT ![c] = "send_update"]
                     /\ clocal' = [clocal EXCEPT ![c] = [message |-> message, content |-> content]]
                     /\ UNCHANGED resp
    /\ UNCHANGED <<roomLast, page, unread, session, readDone, rotated>>
    /\ UNCHANGED elsewhere

\* SendMessage, updateRoomLastMessage and buildMessageResponse.
updateRoomLastMessage(c) ==
    /\ cpc[c] = "send_update"
    /\ \E o \in GetOrCreateRoomKey(ChatRoom), utf8ok \in BOOLEAN :
         LET message == clocal[c].message
             lastMessagePreview == generateLastMessagePreview(message.Type, clocal[c].content)
         IN  /\ KMApply(ChatRoom, o)
             /\ roomLast' = [LastMessage |-> IF message.Type # systemSenderID /\ ~o.err
                                             THEN Encrypt(o.key, lastMessagePreview)
                                             ELSE lastMessagePreview,
                             LastMessageAt |-> message.CreatedAt]
             /\ resp' = [resp EXCEPT ![c] =
                    [Success |-> TRUE,
                     ChatMessage |-> ChatMessage(message, DecryptForResponse(message, o, utf8ok),
                                                 cleanReadBy(message.ReadBy, message.SenderID))]]
    /\ cpc' = [cpc EXCEPT ![c] = "idle"]
    /\ clocal' = [clocal EXCEPT ![c] = [message |-> 0]]
    /\ UNCHANGED <<messages, original, clock, page, unread, session, readDone, rotated, calls>>
    /\ UNCHANGED elsewhere

\* ForceRotateKey of the chat room, called between the RPCs.
ForceRotateRoom ==
    /\ calls < MaxChatCalls /\ calls' = calls + 1
    /\ keys[ChatRoom] # NoKey
    /\ keyHeap[keys[ChatRoom]].Version < MaxVersion
    /\ KMApply(ChatRoom, RotateRoomKey(ChatRoom))
    /\ rotated' = [rotated EXCEPT ![ChatRoom] = @ + 1]
    /\ UNCHANGED chatVars
    /\ UNCHANGED elsewhere

\* GetMessages: one page, each message decrypted under the room's current key.
GetMessages(limit, cursor) ==
    /\ calls < MaxChatCalls /\ calls' = calls + 1
    /\ LET got == GetByRoomID(messages, limit, cursor) IN
       IF got.messages = <<>>
       THEN /\ page' = [Success |-> TRUE, Messages |-> <<>>, NextCursor |-> got.nextCursor,
                        HasMore |-> got.hasMore]
            /\ UNCHANGED kmCache
       ELSE \E o \in GetOrCreateRoomKey(ChatRoom), utf8ok \in BOOLEAN :
            /\ KMApply(ChatRoom, o)
            /\ page' = [Success |-> TRUE,
                        Messages |-> [i \in 1..Len(got.messages) |->
                            ChatMessage(got.messages[i],
                                        DecryptForResponse(got.messages[i], o, utf8ok),
                                        cleanReadBy(got.messages[i].ReadBy,
                                                    got.messages[i].SenderID))],
                        NextCursor |-> got.nextCursor, HasMore |-> got.hasMore]
    /\ UNCHANGED <<messages, original, clock, roomLast, cpc, clocal, resp, unread, session, readDone,
                   rotated>>
    /\ UNCHANGED elsewhere

\* A client pages through the room: GetMessages with the empty cursor, then with
\* each nextCursor while hasMore is set; the pages, one after the other.
RECURSIVE WalkPages(_, _, _)
WalkPages(msgs, limit, cursor) ==
    LET got == GetByRoomID(msgs, limit, cursor)
    IN  IF got.hasMore THEN got.messages \o WalkPages(msgs, limit, got.nextCursor)
        ELSE got.messages

\* The whole walk, no message being added meanwhile; page holds all it returned.
GetMessagesWalk(limit) ==
    /\ calls < MaxChatCalls /\ calls' = calls + 1
    /\ LET got == WalkPages(messages, limit, NoCursor) IN
       IF got = <<>>
       THEN /\ page' = [Success |-> TRUE, Messages |-> <<>>, NextCursor |-> NoCursor,
                        HasMore |-> FALSE]
            /\ UNCHANGED kmCache
       ELSE \E o \in GetOrCreateRoomKey(ChatRoom), utf8ok \in BOOLEAN :
            /\ KMApply(ChatRoom, o)
            /\ page' = [Success |-> TRUE,
                        Messages |-> [i \in 1..Len(got) |->
                            ChatMessage(got[i], DecryptForResponse(got[i], o, utf8ok),
                                        cleanReadBy(got[i].ReadBy, got[i].SenderID))],
                        NextCursor |-> NoCursor, HasMore |-> FALSE]
    /\ UNCHANGED <<messages, original, clock, roomLast, cpc, clocal, resp, unread, session, readDone,
                   rotated>>
    /\ UNCHANGED elsewhere

\* MarkAsRead: UpdateMany starts; the documents of the room (or the one named by
\* messageID, 0 for none) are the ones it will visit.
MarkAsRead(c, userID, messageID) ==
    /\ CIdle(c)
    /\ calls < MaxChatCalls /\ calls' = calls + 1
    /\ messages # <<>>
    /\ cpc' = [cpc EXCEPT ![c] = "mark"]
    /\ clocal' = [clocal EXCEPT ![c] =
           [user |-> userID,
            targets |-> IF messageID = 0 THEN 1..Len(messages) ELSE {messageID},
            todo |-> IF messageID = 0 THEN 1..Len(messages) ELSE {messageID}]]
    /\ UNCHANGED <<messages, original, clock, roomLast, resp, page, unread, session, readDone, rotated>>
    /\ UNCHANGED <<elsewhere, kmCache>>

\* UpdateMany updates one matching document; each document's update is atomic.
\* After the last one MarkAsRead returns success.
MarkAsReadUpdateOne(c) ==
    /\ cpc[c] = "mark"
    /\ \E id \in clocal[c].todo :
         /\ messages' = [messages EXCEPT ![id] = PushReadBy(@, clocal[c].user)]
         /\ IF clocal[c].todo = {id}
            THEN /\ cpc' = [cpc EXCEPT ![c] = "idle"]
                 /\ clocal' = [clocal EXCEPT ![c] = [message |-> 0]]
                 /\ readDone' = readDone \cup { <<c, m, clocal[c].user>> : m \in clocal[c].targets }
            ELSE /\ clocal' = [clocal EXCEPT ![c].todo = @ \ {id}]
                 /\ UNCHANGED <<cpc, readDone>>
    /\ UNCHANGED <<original, clock, roomLast, resp, page, unread, session, rotated, calls>>
    /\ UNCHANGED <<elsewhere, kmCache>>

\* GetUnreadCount's inner loop: some read_by entry of the message names the user.
isReadNever(message, userID) == FALSE

isRead(message, userID) == \E k \in 1..Len(message.ReadBy) : message.ReadBy[k] = userID

\* GetUnreadCount's outer loop over the fetched messages.
unreadCount(msgs, userID) ==
    LET RECURSIVE counted(_)
        counted(i) == IF i = 0 THEN 0
                      ELSE counted(i - 1) +
                           (IF ~isRead(msgs[i], userID) /\ msgs[i].SenderID # userID THEN 1 ELSE 0)
    IN  counted(Len(msgs))

\* GetUnreadCount: one GetByRoomID with limit 1000 and no cursor, then the count.
GetUnreadCount(userID, fetchErr) ==
    /\ calls < MaxChatCalls /\ calls' = calls + 1
    /\ unread' = [UserId |-> userID, Success |-> ~fetchErr,
                  Count |-> IF fetchErr THEN 0
                            ELSE unreadCount(GetByRoomID(messages, 1000, NoCursor).messages, userID),
                  call |-> calls']
    /\ UNCHANGED <<messages, original, clock, roomLast, cpc, clocal, resp, page, session,
                   readDone, rotated>>
    /\ UNCHANGED <<elsewhere, kmCache>>

\* ------------------------------------------------------------- the stream
Ids(msgs) == { msgs[i].ID : i \in 1..Len(msgs) }

MarkSeenNever(seen, id) == seen

MarkSeen(seen, id) == seen \cup {id}

ClosedSession == [open |-> FALSE, cancelled |-> FALSE, seen |-> {}, emitted |-> <<>>,
                  existing |-> {}, fetched |-> 0, lastFetchOk |-> TRUE, newMessageCount |-> 0,
                  tickFailed |-> FALSE]

StreamingAlways(s) == TRUE

\* StreamMessages stays in its for/select loop until it returns.
Streaming(s) == s.open

\* StreamMessages up to the loop: initializeSeenMessages.  A store error leaves
\* the seen set empty.
initializeSeenMessages(fetchErr) ==
    /\ ~session.open
    /\ calls < MaxChatCalls /\ calls' = calls + 1
    /\ session' = [open |-> TRUE,
                   cancelled |-> FALSE,
                   seen |-> IF fetchErr THEN {}
                            ELSE Ids(GetByRoomID(messages, initialFetchLimit, NoCursor).messages),
                   emitted |-> <<>>,
                   existing |-> 1..Len(messages),
                   fetched |-> Len(messages),
                   lastFetchOk |-> ~fetchErr,
                   newMessageCount |-> 0,
                   tickFailed |-> FALSE]
    /\ UNCHANGED <<messages, original, clock, roomLast, cpc, clocal, resp, page, unread, readDone, rotated>>
    /\ UNCHANGED <<elsewhere, kmCache>>

\* One pass of fetchAndStreamNewMessages' loop over the fetched page: s is the
\* session's [seen, emitted]; a message is marked seen, then sent.
RECURSIVE StreamLoop(_, _, _, _, _)
StreamLoop(msgs, i, s, o, utf8ok) ==
    IF i > Len(msgs) THEN s
    ELSE IF msgs[i].ID \in s.seen THEN StreamLoop(msgs, i + 1, s, o, utf8ok)
    ELSE StreamLoop(msgs, i + 1,
                    [seen |-> MarkSeen(s.seen, msgs[i].ID),
                     emitted |-> Append(s.emitted,
                         ChatMessage(msgs[i], DecryptForResponse(msgs[i], o, utf8ok),
                                     rawReadBy(msgs[i].ReadBy, msgs[i].SenderID)))],
                    o, utf8ok)

\* A tick of the session: fetchAndStreamNewMessages.  A store error is logged
\* and the tick ends; sendFails makes the first stream.Send fail, which ends the
\* session.
fetchAndStreamNewMessages(fetchErr, sendFails) ==
    /\ Streaming(session)
    /\ IF fetchErr
       THEN /\ session.lastFetchOk
            /\ session' = [session EXCEPT !.lastFetchOk = FALSE, !.tickFailed = TRUE]
            /\ UNCHANGED kmCache
       ELSE LET msgs == GetByRoomID(messages, StreamFetchLimit, NoCursor).messages
                new == SelectSeq(msgs, LAMBDA m : m.ID \notin session.seen)
            IN  IF new = <<>>
                THEN /\ ~sendFails
                     /\ session' = [session EXCEPT !.lastFetchOk = TRUE, !.newMessageCount = 0,
                                                   !.fetched = Len(messages),
                                                   !.tickFailed = FALSE]
                     /\ UNCHANGED kmCache
                ELSE \E o \in GetOrCreateRoomKey(ChatRoom), utf8ok \in BOOLEAN :
                     /\ KMApply(ChatRoom, o)
                     /\ IF sendFails
                        THEN session' = [session EXCEPT !.open = FALSE,
                                             !.seen = MarkSeen(@, new[1].ID)]
                        ELSE LET s == StreamLoop(msgs, 1, [seen |-> session.seen,
                                                           emitted |-> session.emitted], o, utf8ok)
                             IN  session' = [session EXCEPT !.seen = s.seen,
                                                 !.emitted = s.emitted,
                                                 !.lastFetchOk = TRUE,
                                                 !.newMessageCount = Len(new),
                                                 !.fetched = Len(messages),
                                                 !.tickFailed = FALSE]
    /\ UNCHANGED <<messages, original, clock, roomLast, cpc, clocal, resp, page, unread, readDone,
                   rotated, calls>>
    /\ UNCHANGED elsewhere

\* ctx.Done(): the client closes the stream; the select takes that case and
\* StreamMessages returns.
StreamCancel ==
    /\ Streaming(session)
    /\ session' = [session EXCEPT !.open = FALSE, !.cancelled = TRUE]
    /\ UNCHANGED <<messages, original, clock, roomLast, cpc, clocal, resp, page, unread, readDone,
                   rotated, calls>>
    /\ UNCHANGED <<elsewhere, kmCache>>

ChatNext ==
    \/ \E c \in Threads, sender \in Senders, content \in Contents, type \in MsgTypes :
          createEncryptedMessage(c, sender, content, type)
    \/ \E c \in Threads : updateRoomLastMessage(c)
    \/ ForceRotateRoom
    \/ \E limit \in {0, maxLimit}, cursor \in {NoCursor, page.NextCursor} :
          GetMessages(limit, cursor)
    \/ \E c \in Threads, u \in Users, id \in 0..Len(messages) : MarkAsRead(c, u, id)
    \/ \E c \in Threads : MarkAsReadUpdateOne(c)
    \/ \E u \in Users, fetchErr \in BOOLEAN : GetUnreadCount(u, fetchErr)

PagesNext ==
    \/ \E c \in Threads, sender \in Senders, content \in Contents, type \in MsgTypes :
          createEncryptedMessage(c, sender, content, type)
    \/ \E c \in Threads : updateRoomLastMessage(c)
    \/ \E c \in Threads, u \in Users, id \in 0..Len(messages) : MarkAsRead(c, u, id)
    \/ \E c \in Threads : MarkAsReadUpdateOne(c)
    \/ \E limit \in {0, maxLimit} : GetMessagesWalk(limit)

StreamNext ==
    \/ \E c \in Threads, sender \in Senders, content \in Contents, type \in MsgTypes :
          createEncryptedMessage(c, sender, content, type)
    \/ \E c \in Threads : updateRoomLastMessage(c)
    \/ \E c \in Threads, u \in Users, id \in 0..Len(messages) : MarkAsRead(c, u, id)
    \/ \E c \in Threads : MarkAsReadUpdateOne(c)
    \/ \E fetchErr \in BOOLEAN : initializeSeenMessages(fetchErr)
    \/ \E fetchErr, sendFails \in BOOLEAN : fetchAndStreamNewMessages(fetchErr, sendFails)
    \/ StreamCancel

\* ------------------------------------------------------------ the room store
SetOf(seq) == { seq[i] : i \in 1..Len(seq) }

\* ChatRoomStore.ListUserRooms: the rooms userID is a member of, last_message_at
\* descending (newest document first among equals), those before the cursor's
\* time when a cursor is given; limit + 1 fetched, the extra one dropped.
ListUserRooms(coll, userID, limit, cursor) ==
    LET mine == SelectSeq(coll, LAMBDA room :
                    /\ userID \in SetOf(room.Members)
                    /\ cursor = NoCursor \/ room.LastMessageAt < ParseRFC3339(cursor))
        sorted == SortSeq(mine, LAMBDA a, b :
                    \/ a.LastMessageAt > b.LastMessageAt
                    \/ a.LastMessageAt = b.LastMessageAt /\ a.ID > b.ID)
        n == Len(sorted)
        hasMore == n > limit
        rooms == IF hasMore THEN SubSeq(sorted, 1, limit) ELSE sorted
    IN  [rooms |-> rooms,
         hasMore |-> hasMore,
         nextCursor |-> IF hasMore /\ Len(rooms) > 0
                        THEN FormatRFC3339(rooms[Len(rooms)].LastMessageAt) ELSE NoCursor]

hasSameMembersNever(members, memberIDMap) == FALSE

\* hasSameMembers: members is the room's list, memberIDMap the set of requested ids.
hasSameMembers(members, memberIDMap) ==
    /\ Len(members) = Cardinality(memberIDMap)
    /\ \A i \in 1..Len(members) : members[i] \in memberIDMap

NoRoom == [ID |-> 0]

\* findExistingDirectChat: the first room of the scan that is direct, has two
\* members and the requested ones; none when the listing fails.
findExistingDirectChat(coll, ownerID, memberIds, listErr) ==
    LET existingRooms == ListUserRooms(coll, ownerID, checkLimit, NoCursor).rooms
        hits == { i \in 1..Len(existingRooms) :
                    /\ existingRooms[i].Type = roomTypeDirect
                    /\ Len(existingRooms[i].Members) = 2
                    /\ hasSameMembers(existingRooms[i].Members, SetOf(memberIds)) }
    IN  IF listErr \/ hits = {} THEN NoRoom
        ELSE existingRooms[CHOOSE i \in hits : \A j \in hits : i <= j]

ensureOwnerInMembers(ownerID, memberIds) ==
    IF ownerID \in SetOf(memberIds) THEN memberIds ELSE <<ownerID>> \o memberIds

\* Direct rooms stored for exactly the two users of pair.
DirectRoomsOf(coll, pair) ==
    { i \in 1..Len(coll) : /\ coll[i].Type = roomTypeDirect
                           /\ Len(coll[i].Members) = 2
                           /\ SetOf(coll[i].Members) = pair }

RIdle(t) == rpc[t] = "idle"

\* A call that returns: its record goes to rdone, which keeps the last two.
Completed(t, success, healthy, roomID, after) ==
    LET d == [req |-> rlocal[t].req, Success |-> success, RoomId |-> roomID,
              solo |-> rlocal[t].solo, healthy |-> healthy,
              before |-> rlocal[t].before,
              after |-> Cardinality(DirectRoomsOf(after, SetOf(rlocal[t].req.MemberIds)))]
    IN  /\ rdone' = IF Len(rdone) < 2 THEN Append(rdone, d) ELSE <<rdone[2], d>>
        /\ rpc' = [rpc EXCEPT ![t] = "idle"]
        /\ rlocal' = [rlocal EXCEPT ![t] = [req |-> NoRoom]]

\* CreateRoom, first store access: for a direct request with two member ids the
\* scan for an existing room, which ends the call when it finds one.
CreateRoom(t, type, ownerID, memberIds, listErr) ==
    /\ RIdle(t)
    /\ calls < MaxRoomCalls /\ calls' = calls + 1
    /\ LET req == [Type |-> type, OwnerId |-> ownerID, MemberIds |-> memberIds]
           dedup == type = roomTypeDirect /\ Len(memberIds) = 2
           existingRoom == IF dedup
                           THEN findExistingDirectChat(chat_rooms, ownerID, memberIds, listErr)
                           ELSE NoRoom
           others == { u \in Threads \ {t} : ~RIdle(u) }
           mine == [req |-> req, solo |-> others = {}, healthy |-> ~(dedup /\ listErr),
                    before |-> Cardinality(DirectRoomsOf(chat_rooms, SetOf(memberIds)))]
           seen == [u \in Threads |->
                      IF u = t THEN mine
                      ELSE IF u \in others THEN [rlocal[u] EXCEPT !.solo = FALSE] ELSE rlocal[u]]
       IN  /\ (listErr => dedup)
           /\ IF existingRoom # NoRoom
              THEN LET d == [req |-> req, Success |-> TRUE, RoomId |-> existingRoom.ID,
                             solo |-> mine.solo, healthy |-> mine.healthy,
                             before |-> mine.before, after |-> mine.before]
                   IN  /\ rdone' = IF Len(rdone) < 2 THEN Append(rdone, d) ELSE <<rdone[2], d>>
                       /\ rlocal' = [seen EXCEPT ![t] = [req |-> NoRoom]]
                       /\ UNCHANGED rpc
              ELSE /\ rpc' = [rpc EXCEPT ![t] = "create"]
                   /\ rlocal' = seen
                   /\ UNCHANGED rdone
    /\ UNCHANGED <<chat_rooms, rclock>>
    /\ UNCHANGED <<kmCache, rotated, mu, policyEnabled, now, pc, local, ret, listing, httpStatus, sse, rotation, cipher, saving, adapter, chatVars>>

\* CreateRoom, second store access: ensureOwnerInMembers, createRoomMembers and
\* ChatRoomStore.Create, which stamps LastMessageAt.
CreateRoomInsert(t, createErr) ==
    /\ rpc[t] = "create"
    /\ IF createErr
       THEN /\ Completed(t, FALSE, FALSE, 0, chat_rooms)
            /\ UNCHANGED <<chat_rooms, rclock>>
       ELSE LET room == [ID |-> Len(chat_rooms) + 1, Type |-> rlocal[t].req.Type,
                         OwnerID |-> rlocal[t].req.OwnerId,
                         Members |-> ensureOwnerInMembers(rlocal[t].req.OwnerId,
                                                          rlocal[t].req.MemberIds),
                         LastMessage |-> "", LastMessageAt |-> rclock + 1]
            IN  /\ Len(chat_rooms) < MaxRooms
                /\ chat_rooms' = Append(chat_rooms, room)
                /\ rclock' = rclock + 1
                /\ Completed(t, TRUE, rlocal[t].healthy, room.ID, Append(chat_rooms, room))
    /\ UNCHANGED <<kmCache, rotated, mu, policyEnabled, now, pc, local, ret, listing, httpStatus, sse, rotation, cipher, saving, adapter, chatVars, calls>>

RoomNext ==
    \/ \E t \in Threads, req \in RoomRequests, listErr \in BOOLEAN :
          CreateRoom(t, req.Type, req.OwnerId, req.MemberIds, listErr)
    \/ \E t \in Threads, createErr \in BOOLEAN : CreateRoomInsert(t, createErr)

\* ------------------------------------------------------ join and leave room
MaxMemberCalls == 3  \* calls started in one behaviour of the membership specification

MemberUsers == {"alice", "carol"}
MemberRoomRequests == { r \in RoomRequests : r.OwnerId = "alice" /\ r.MemberIds = <<"alice", "bob">> }
MemberMsgTypes == {"text", systemSenderID}
joinedText == "joined"
leftText == "left"

\* time.Now(): later than every stamp either store has given.
Now == IF clock > rclock THEN clock ELSE rclock

IsMemberNever(coll, roomID, userID) == FALSE

\* ChatRoomStore.IsMember: a document with this id and an embedded member userID.
IsMember(coll, roomID, userID) == userID \in SetOf(coll[roomID].Members)

\* ChatRoomStore.AddMember: $push, whatever the list holds.
AddMember(coll, roomID, userID) == [coll EXCEPT ![roomID].Members = Append(@, userID)]

\* ChatRoomStore.RemoveMember: $pull of every entry of userID.
RemoveMember(coll, roomID, userID) ==
    [coll EXCEPT ![roomID].Members = SelectSeq(@, LAMBDA u : u # userID)]

\* A membership call starts: its locals, and the calls it overlaps are no
\* longer alone.
Started(t, req, healthy, event) ==
    [u \in Threads |->
        IF u = t
        THEN [req |-> req, solo |-> \A v \in Threads \ {t} : RIdle(v), healthy |-> healthy,
              before |-> CountOf(req.UserId, chat_rooms[req.RoomId].Members),
              event |-> event, made |-> 0, message |-> [ID |-> 0]]
        ELSE IF ~RIdle(u) THEN [rlocal[u] EXCEPT !.solo = FALSE] ELSE rlocal[u]]

\* A membership call returns: its record goes to rdone, which keeps the last two.
Returned(t, l, success, coll) ==
    LET d == [req |-> l.req, Success |-> success, RoomId |-> l.req.RoomId,
              solo |-> l.solo, healthy |-> l.healthy, before |-> l.before,
              after |-> CountOf(l.req.UserId, coll[l.req.RoomId].Members),
              made |-> l.made]
    IN  /\ rdone' = IF Len(rdone) < 2 THEN Append(rdone, d) ELSE <<rdone[2], d>>
        /\ rpc' = [rpc EXCEPT ![t] = "idle"]

\* JoinRoom up to the membership check: a store error fails the call, a member
\* gets success at once.
JoinRoom(t, roomID, userID, isMemberErr) ==
    /\ RIdle(t)
    /\ calls < MaxMemberCalls /\ calls' = calls + 1
    /\ roomID \in 1..Len(chat_rooms)
    /\ LET req == [Type |-> "join", RoomId |-> roomID, UserId |-> userID]
           seen == Started(t, req, ~isMemberErr, joinedText)
       IN  IF isMemberErr \/ IsMember(chat_rooms, roomID, userID)
           THEN /\ Returned(t, seen[t], ~isMemberErr, chat_rooms)
                /\ rlocal' = [seen EXCEPT ![t] = [req |-> NoRoom]]
           ELSE /\ rpc' = [rpc EXCEPT ![t] = "add"]
                /\ rlocal' = seen
                /\ UNCHANGED rdone
    /\ UNCHANGED <<chat_rooms, rclock>>
    /\ UNCHANGED <<kmCache, rotated, mu, policyEnabled, now, pc, local, ret, listing, httpStatus, sse, rotation, cipher, saving, adapter, chatVars>>

\* JoinRoom, ChatRoomStore.AddMember.
JoinRoomAddMember(t, addErr) ==
    /\ rpc[t] = "add"
    /\ IF addErr
       THEN /\ Returned(t, [rlocal[t] EXCEPT !.healthy = FALSE], FALSE, chat_rooms)
            /\ rlocal' = [rlocal EXCEPT ![t] = [req |-> NoRoom]]
            /\ UNCHANGED chat_rooms
       ELSE /\ chat_rooms' = AddMember(chat_rooms, rlocal[t].req.RoomId, rlocal[t].req.UserId)
            /\ rpc' = [rpc EXCEPT ![t] = "system_create"]
            /\ UNCHANGED <<rlocal, rdone>>
    /\ UNCHANGED <<rclock, calls>>
    /\ UNCHANGED <<kmCache, rotated, mu, policyEnabled, now, pc, local, ret, listing, httpStatus, sse, rotation, cipher, saving, adapter, chatVars>>

\* LeaveRoom up to ChatRoomStore.RemoveMember.
LeaveRoom(t, roomID, userID, removeErr) ==
    /\ RIdle(t)
    /\ calls < MaxMemberCalls /\ calls' = calls + 1
    /\ roomID \in 1..Len(chat_rooms)
    /\ LET req == [Type |-> "leave", RoomId |-> roomID, UserId |-> userID]
           seen == Started(t, req, ~removeErr, leftText)
       IN  IF removeErr
           THEN /\ Returned(t, seen[t], FALSE, chat_rooms)
                /\ rlocal' = [seen EXCEPT ![t] = [req |-> NoRoom]]
                /\ UNCHANGED chat_rooms
           ELSE /\ chat_rooms' = RemoveMember(chat_rooms, roomID, userID)
                /\ rpc' = [rpc EXCEPT ![t] = "system_create"]
                /\ rlocal' = seen
                /\ UNCHANGED rdone
    /\ UNCHANGED rclock
    /\ UNCHANGED <<kmCache, rotated, mu, policyEnabled, now, pc, local, ret, listing, httpStatus, sse, rotation, cipher, saving, adapter, chatVars>>

\* The content of a membership system message: req.UserId + " joined/left".
SystemContent(userID, event) == [plain |-> <<userID, event>>]

\* createSystemMessageAndUpdateRoom, MessageStore.Create: sender and type are
\* systemSenderID, the content is stored as it is.  A store error is logged and
\* the RPC returns success.
createSystemMessage(t, createErr) ==
    /\ rpc[t] = "system_create"
    /\ IF createErr
       THEN /\ Returned(t, [rlocal[t] EXCEPT !.healthy = FALSE], TRUE, chat_rooms)
            /\ rlocal' = [rlocal EXCEPT ![t] = [req |-> NoRoom]]
            /\ UNCHANGED <<messages, original, clock, rclock>>
       ELSE LET content == SystemContent(rlocal[t].req.UserId, rlocal[t].event)
                systemMessage == [ID |-> Len(messages) + 1, SenderID |-> systemSenderID,
                                  Content |-> content, Type |-> systemSenderID,
                                  ReadBy |-> <<>>, CreatedAt |-> Now + 1]
            IN  /\ Len(messages) < MaxMsgs
                /\ messages' = Append(messages, systemMessage)
                /\ original' = Append(original, content)
                /\ clock' = Now + 1
                /\ rclock' = Now + 1
                /\ rpc' = [rpc EXCEPT ![t] = "system_update"]
                /\ rlocal' = [rlocal EXCEPT ![t].made = @ + 1, ![t].message = systemMessage]
                /\ UNCHANGED rdone
    /\ UNCHANGED <<chat_rooms, calls>>
    /\ UNCHANGED <<kmCache, rotated, mu, policyEnabled, now, pc, local, ret, listing, httpStatus, sse, rotation, cipher, saving, adapter>>
    /\ UNCHANGED <<roomLast, cpc, clocal, resp, page, unread, session, readDone>>

\* createSystemMessageAndUpdateRoom, ChatRoomStore.Update: the preview fields
\* take the system message's content and stamp.  A store error is logged.
updateRoomSystemMessage(t, updateErr) ==
    /\ rpc[t] = "system_update"
    /\ LET roomID == rlocal[t].req.RoomId
           systemMessage == rlocal[t].message
           coll == IF updateErr THEN chat_rooms
                   ELSE [chat_rooms EXCEPT ![roomID].LastMessage = systemMessage.Content,
                                           ![roomID].LastMessageAt = systemMessage.CreatedAt]
       IN  /\ chat_rooms' = coll
           /\ Returned(t, [rlocal[t] EXCEPT !.healthy = @ /\ ~updateErr], TRUE, coll)
           /\ rlocal' = [rlocal EXCEPT ![t] = [req |-> NoRoom]]
    /\ UNCHANGED <<rclock, calls>>
    /\ UNCHANGED <<kmCache, rotated, mu, policyEnabled, now, pc, local, ret, listing, httpStatus, sse, rotation, cipher, saving, adapter, chatVars>>

MemberNext ==
    \/ /\ calls < MaxMemberCalls
       /\ \E t \in Threads, req \in MemberRoomRequests :
             CreateRoom(t, req.Type, req.OwnerId, req.MemberIds, FALSE)
    \/ \E t \in Threads : CreateRoomInsert(t, FALSE)
    \/ \E t \in Threads, roomID \in 1..Len(chat_rooms), userID \in MemberUsers,
          isMemberErr \in BOOLEAN : JoinRoom(t, roomID, userID, isMemberErr)
    \/ \E t \in Threads, addErr \in BOOLEAN : JoinRoomAddMember(t, addErr)
    \/ \E t \in Threads, roomID \in 1..Len(chat_rooms), userID \in MemberUsers,
          removeErr \in BOOLEAN : LeaveRoom(t, roomID, userID, removeErr)
    \/ \E t \in Threads, createErr \in BOOLEAN : createSystemMessage(t, createErr)
    \/ \E t \in Threads, updateErr \in BOOLEAN : updateRoomSystemMessage(t, updateErr)
    \/ /\ calls < MaxMemberCalls
       /\ \E c \in Threads, sender \in Senders, content \in Contents, type \in MemberMsgTypes :
             createEncryptedMessage(c, sender, content, type)
    \/ \E c \in Threads : updateRoomLastMessage(c)

\* ------------------------------------------------------------ listing rooms
NoListing == [UserId |-> "", Limit |-> 0, Success |-> FALSE, Cursor |-> NoCursor,
              HasMore |-> FALSE, got |-> {}, base |-> 0]

\* Server.ListUserRooms: the limit defaults to the configured page size, the
\* store is asked for one page, the response carries its rooms, cursor and
\* hasMore. A call with the empty cursor begins a walk.
ServerListUserRooms(userID, limit, cursor, listErr) ==
    /\ LET found == ListUserRooms(chat_rooms, userID,
                                  IF limit <= 0 THEN defaultLimit ELSE limit, cursor)
           first == cursor = NoCursor
       IN  listing' = IF listErr
                      THEN [listing EXCEPT !.Success = FALSE, !.Cursor = NoCursor,
                                           !.HasMore = FALSE]
                      ELSE [UserId |-> userID, Limit |-> limit, Success |-> TRUE,
                            Cursor |-> found.nextCursor, HasMore |-> found.hasMore,
                            got |-> (IF first THEN {} ELSE listing.got) \cup Ids(found.rooms),
                            base |-> IF first THEN Len(chat_rooms) ELSE listing.base]
    /\ UNCHANGED <<chat_rooms, rclock, rpc, rlocal, rdone, calls, httpStatus, sse, rotation, cipher, saving, adapter>>
    /\ UNCHANGED <<kmCache, rotated, mu, policyEnabled, now, pc, local, ret, chatVars>>

\* Rooms are created, and a client pages through a user's rooms: from the empty
\* cursor, then with the cursor of the last response while it says hasMore.
ListNext ==
    \/ \E t \in Threads, req \in MemberRoomRequests :
          CreateRoom(t, req.Type, req.OwnerId, req.MemberIds, FALSE)
    \/ \E t \in Threads : CreateRoomInsert(t, FALSE)
    \/ \E userID \in Users, limit \in {0, maxLimit}, listErr \in BOOLEAN :
          ServerListUserRooms(userID, limit, NoCursor, listErr)
    \/ /\ listing.Success /\ listing.HasMore
       /\ \E listErr \in BOOLEAN :
             ServerListUserRooms(listing.UserId, listing.Limit, listing.Cursor, listErr)

\* ------------------------------------------------- the HTTP adapter and the RPC
MaxGatewayCalls == 3  \* requests accepted in one behaviour of the gateway specification
maxMembers == 2       \* limits.room.max_members (1000 in the source)

\* middleware.ValidateUserID: not blank, at most MaxUserIDLength bytes, none of
\* NUL $ { } [ ].
ValidateUserID(userID) == userID \notin {"", "user id of 101 bytes", "a$b"}

\* middleware.ValidateRoomName: not blank, at most the configured length.
ValidateRoomName(name) == name \notin {"", "name of 101 bytes"}

\* middleware.ValidateMessageContent: not blank, at most the configured length.
ValidateMessageContent(content) == content \notin {"", "content of 10001 bytes"}

\* middleware.ValidateRoomID: 24 hexadecimal characters.
ValidateRoomID(roomID) == roomID # "not-hex"

\* The HTTP adapter's createRoom: the name, the owner id, the number of members
\* and each member id are checked, a failure answers 400 at once; otherwise the
\* request goes to the RPC CreateRoom.
createRoom(t, name, type, ownerID, memberIds) ==
    IF /\ ValidateRoomName(name)
       /\ ValidateUserID(ownerID)
       /\ Len(memberIds) <= maxMembers
       /\ \A i \in 1..Len(memberIds) : ValidateUserID(memberIds[i])
    THEN CreateRoom(t, type, ownerID, memberIds, FALSE)
    ELSE /\ httpStatus' = 400
         /\ UNCHANGED <<chat_rooms, rclock, rpc, rlocal, rdone, listing, sse, rotation, cipher, saving, adapter, calls>>
         /\ UNCHANGED <<kmCache, rotated, mu, policyEnabled, now, pc, local, ret, chatVars>>

\* The HTTP adapter's sendMessage: the room id, the sender id and the content are
\* checked, a failure answers 400 at once; otherwise the request goes to the RPC
\* SendMessage.
sendMessage(c, roomID, sender, content, type) ==
    IF ValidateRoomID(roomID) /\ ValidateUserID(sender) /\ ValidateMessageContent(content)
    THEN createEncryptedMessage(c, sender, content, type)
    ELSE /\ httpStatus' = 400
         /\ UNCHANGED <<chat_rooms, rclock, rpc, rlocal, rdone, listing, sse, rotation, cipher, saving, adapter, calls>>
         /\ UNCHANGED <<kmCache, rotated, mu, policyEnabled, now, pc, local, ret, chatVars>>

\* Requests arrive through the HTTP adapter or, from any RPC client, at the
\* ChatRoomService itself. Some strings stand for their kind: a user id with a
\* forbidden character, a room name and a content longer than their limits, a
\* room id that is not 24 hex characters.
GatewayNext ==
    LET userIDs == {"alice", "a$b"}
        memberLists == {<<"alice", "bob">>, <<"alice", "bob", "carol">>, <<"a$b">>}
        names == {"room", "name of 101 bytes"}
        contents == {"hello", "content of 10001 bytes"}
        roomIDs == {ChatRoom, "not-hex"}
    IN  \/ \E name \in names, ownerID \in userIDs, memberIds \in memberLists :
              calls < MaxGatewayCalls /\ createRoom("t1", name, roomTypeGroup, ownerID, memberIds)
        \/ \E ownerID \in userIDs, memberIds \in memberLists :
              calls < MaxGatewayCalls /\ CreateRoom("t1", roomTypeGroup, ownerID, memberIds, FALSE)
        \/ CreateRoomInsert("t1", FALSE)
        \/ \E roomID \in roomIDs, sender \in userIDs, content \in contents :
              calls < MaxGatewayCalls /\ sendMessage("t1", roomID, sender, content, "text")
        \/ \E sender \in userIDs, content \in contents :
              calls < MaxGatewayCalls /\ createEncryptedMessage("t1", sender, content, "text")
        \/ updateRoomLastMessage("t1")

\* ------------------------------------------------------ the SSE limiter
MaxSseTime == 3     \* the limiter's clock stops advancing here
maxPerIP == 1       \* limits.sse.max_connections_per_ip
maxTotalConns == 2  \* limits.sse.max_total_connections
minInterval == 1    \* limits.sse.min_connection_interval, in clock units
staleAfter == 2     \* cleanup drops an ip's lastConnect after this long (10 minutes in the source)
Never == -1         \* no lastConnect entry

SseClients == {"c1", "c2", "c3"}
SseIPs == {"ip1", "ip2"}

\* c.ClientIP(): c1 and c2 come from one address, c3 from another.
ClientIP(c) == IF c = "c3" THEN "ip2" ELSE "ip1"

\* Middleware up to allowConnection, under mu: the total, the ip's count and the
\* time since the ip's last connection are checked; a refusal answers 429.
allowConnection(c) ==
    /\ sse.at[c] = "none"
    /\ LET ip == ClientIP(c)
           allowed == /\ ~(sse.currentTotalConns >= maxTotalConns)
                      /\ ~(sse.connections[ip] >= maxPerIP)
                      /\ ~(sse.lastConnect[ip] # Never
                            /\ sse.time - sse.lastConnect[ip] < minInterval)
       IN  sse' = [sse EXCEPT !.at[c] = IF allowed THEN "allowed" ELSE "none"]
    /\ UNCHANGED <<kmVars, chatVars, chat_rooms, rclock, rpc, rlocal, rdone, listing, httpStatus, rotation, cipher, saving, adapter>>

\* Middleware, registerConnection, under mu again: the counts go up, the handler runs.
registerConnection(c) ==
    /\ sse.at[c] = "allowed"
    /\ sse' = [sse EXCEPT !.connections[ClientIP(c)] = @ + 1,
                          !.currentTotalConns = @ + 1,
                          !.lastConnect[ClientIP(c)] = sse.time,
                          !.at[c] = "open"]
    /\ UNCHANGED <<kmVars, chatVars, chat_rooms, rclock, rpc, rlocal, rdone, listing, httpStatus, rotation, cipher, saving, adapter>>

\* The request's context is done: removeConnection.
removeConnection(c) ==
    /\ sse.at[c] = "open"
    /\ sse' = IF sse.connections[ClientIP(c)] > 0
              THEN [sse EXCEPT !.connections[ClientIP(c)] = @ - 1,
                               !.currentTotalConns = @ - 1,
                               !.at[c] = "none"]
              ELSE [sse EXCEPT !.at[c] = "none"]
    /\ UNCHANGED <<kmVars, chatVars, chat_rooms, rclock, rpc, rlocal, rdone, listing, httpStatus, rotation, cipher, saving, adapter>>

\* A pass that drops the connection count along with lastConnect, whatever it is.
cleanupAnyCount ==
    /\ sse' = [sse EXCEPT
                  !.lastConnect = [ip \in SseIPs |->
                      IF @[ip] # Never /\ sse.time - @[ip] > staleAfter THEN Never ELSE @[ip]],
                  !.connections = [ip \in SseIPs |->
                      IF sse.lastConnect[ip] # Never /\ sse.time - sse.lastConnect[ip] > staleAfter
                      THEN 0 ELSE @[ip]]]
    /\ UNCHANGED <<kmVars, chatVars, chat_rooms, rclock, rpc, rlocal, rdone, listing, httpStatus, rotation, cipher, saving, adapter>>

\* cleanup's pass: an ip not heard of for long loses its lastConnect entry, and
\* its connections entry when that is absent or 0, which leaves the count as it is.
cleanup ==
    /\ sse' = [sse EXCEPT !.lastConnect =
                  [ip \in SseIPs |-> IF @[ip] # Never /\ sse.time - @[ip] > staleAfter
                                     THEN Never ELSE @[ip]]]
    /\ UNCHANGED <<kmVars, chatVars, chat_rooms, rclock, rpc, rlocal, rdone, listing, httpStatus, rotation, cipher, saving, adapter>>

\* Time passes.
SseTick ==
    /\ sse.time < MaxSseTime
    /\ sse' = [sse EXCEPT !.time = @ + 1]
    /\ UNCHANGED <<kmVars, chatVars, chat_rooms, rclock, rpc, rlocal, rdone, listing, httpStatus, rotation, cipher, saving, adapter>>

SseNext ==
    \/ \E c \in SseClients : allowConnection(c)
    \/ \E c \in SseClients : registerConnection(c)
    \/ \E c \in SseClients : removeConnection(c)
    \/ cleanup
    \/ SseTick

\* ------------------------------------------------- starting auto rotation
MaxPlaintext == 4  \* longest plaintext, in bytes
MaxStarts == 3  \* StartAutoRotation calls that find the rotation stopped

\* StartAutoRotation, under mu: nothing when running; else a new stopChan,
\* running, and a goroutine for autoRotationLoop.
StartAutoRotation ==
    /\ rotation' = IF rotation.running THEN rotation
                   ELSE [rotation EXCEPT !.stopChan = @ + 1, !.running = TRUE,
                            !.loops = Append(@, [at |-> "started",
                                                 born |-> rotation.stopChan + 1, chan |-> 0])]
    /\ rotation.running \/ rotation.stopChan < MaxStarts
    /\ UNCHANGED <<kmVars, chatVars, chat_rooms, rclock, rpc, rlocal, rdone, listing, httpStatus, sse, cipher, saving, adapter>>

\* StopAutoRotation, under mu: nothing when not running; else close(stopChan)
\* and not running.
StopAutoRotation ==
    /\ rotation' = IF ~rotation.running THEN rotation
                   ELSE [rotation EXCEPT !.closed = @ \cup {rotation.stopChan},
                                         !.running = FALSE]
    /\ UNCHANGED <<kmVars, chatVars, chat_rooms, rclock, rpc, rlocal, rdone, listing, httpStatus, sse, cipher, saving, adapter>>

\* autoRotationLoop enters its select: km.stopChan is read without mu, so the
\* read gives the channel of the Start that made this goroutine or any channel
\* assigned since.
autoRotationLoopSelect(l, c) ==
    /\ rotation.loops[l].at \in {"started", "ticked"}
    /\ c \in rotation.loops[l].born..rotation.stopChan
    /\ rotation' = [rotation EXCEPT !.loops[l].at = "select", !.loops[l].chan = c]
    /\ UNCHANGED <<kmVars, chatVars, chat_rooms, rclock, rpc, rlocal, rdone, listing, httpStatus, sse, cipher, saving, adapter>>

\* autoRotationLoop leaves its select: by the ticker, to checkAndRotateKeys and
\* round again, or by the closed channel, to return.
autoRotationLoopWake(l, stopped) ==
    /\ rotation.loops[l].at = "select"
    /\ stopped => rotation.loops[l].chan \in rotation.closed
    /\ rotation' = [rotation EXCEPT !.loops[l].at = IF stopped THEN "returned" ELSE "ticked"]
    /\ UNCHANGED <<kmVars, chatVars, chat_rooms, rclock, rpc, rlocal, rdone, listing, httpStatus, sse, cipher, saving, adapter>>

AutoNext ==
    \/ StartAutoRotation
    \/ StopAutoRotation
    \/ \E l \in 1..Len(rotation.loops), c \in 1..MaxStarts : autoRotationLoopSelect(l, c)
    \/ \E l \in 1..Len(rotation.loops), stopped \in BOOLEAN : autoRotationLoopWake(l, stopped)

\* -------------------------------------------------- key manager: key loads
\* GetOrCreateRoomKey taken whole, for any room.
GetOrCreateRoomKeyCall(roomID) ==
    /\ calls < MaxChatCalls /\ calls' = calls + 1
    /\ \E o \in GetOrCreateRoomKey(roomID) : KMApply(roomID, o)
    /\ UNCHANGED <<rotated, chatVars, elsewhere>>

\* LoadAllKeys: GetAllKeys returns the room's documents by key_version
\* descending; under the lock each one becomes a new Key, the active one
\* replacing km.keys[roomID], every other one appended to km.oldKeys[roomID].
LoadAllKeys(roomID, loadErr) ==
    /\ calls < MaxChatCalls /\ calls' = calls + 1
    /\ IF loadErr
       THEN UNCHANGED <<keyHeap, keys, oldKeys>>
       ELSE LET keyDocs == { d \in encryption_keys : d.RoomID = roomID }
                top == IF keyDocs = {} THEN 0
                       ELSE CHOOSE v \in { d.KeyVersion : d \in keyDocs } :
                                \A d \in keyDocs : d.KeyVersion <= v
                RECURSIVE load(_, _)
                load(st, v) ==
                    IF v = 0 THEN st
                    ELSE IF \A d \in keyDocs : d.KeyVersion # v THEN load(st, v - 1)
                    ELSE LET keyDoc == CHOOSE d \in keyDocs : d.KeyVersion = v
                             heap == Append(st.heap,
                                        [LoadedKey(roomID, keyDoc) EXCEPT !.Status =
                                            IF keyDoc.IsActive THEN KeyStatusActive
                                            ELSE KeyStatusArchived])
                         IN  load([heap |-> heap,
                                   key |-> IF keyDoc.IsActive THEN Len(heap) ELSE st.key,
                                   olds |-> IF keyDoc.IsActive THEN st.olds
                                            ELSE Append(st.olds, Len(heap))], v - 1)
                loaded == load([heap |-> keyHeap, key |-> keys[roomID],
                                olds |-> oldKeys[roomID]], top)
            IN  /\ keyHeap' = loaded.heap
                /\ keys' = [keys EXCEPT ![roomID] = loaded.key]
                /\ oldKeys' = [oldKeys EXCEPT ![roomID] = loaded.olds]
    /\ UNCHANGED <<encryption_keys, dekGen, created, rotated, chatVars, elsewhere>>

\* Time passes until a key created at 0 is older than MaxKeyAge.
TickPastMaxKeyAge ==
    /\ UNCHANGED <<chatVars, roomVars>>
    /\ now < MaxKeyAge + 1
    /\ now' = now + 1
    /\ UNCHANGED <<calls, keyHeap, keys, oldKeys, mu, encryption_keys, dekGen, policyEnabled,
                   pc, local, ret, created, rotated>>

\* The hourly check at work on rooms whose keys age.
RotationNext ==
    \/ \E r \in Rooms : GetOrCreateRoomKeyCall(r)
    \/ checkAndRotateKeys(AutoThread)
    \/ \E t \in KMThreads : rotateKey(t)
    \/ \E t \in KMThreads, saveErr \in BOOLEAN : rotateKeyReplace(t, saveErr)
    \/ TickPastMaxKeyAge
    \/ \E enabled \in BOOLEAN : SetRotationPolicy(enabled)

LoadNext ==
    \/ \E r \in {ChatRoom} : GetOrCreateRoomKeyCall(r)
    \/ ForceRotateRoom
    \/ \E r \in {ChatRoom}, loadErr \in BOOLEAN : LoadAllKeys(r, loadErr)
    \/ Tick

\* ------------------------------------------- key store: concurrent writers
\* KeyStore.SaveKey without a transaction, called by a writer that holds no
\* lock over the store (another gateway process): the UpdateMany that demotes
\* the room's other active documents.
SaveKeyUpdateMany(w, version) ==
    /\ calls < MaxChatCalls /\ calls' = calls + 1
    /\ saving[w] = NoDoc
    /\ LET doc == [NewRoomKeyDoc(ChatRoom, version, now) EXCEPT !.KeyVersion = version]
       IN  /\ encryption_keys' = DeactivateOldKeys(encryption_keys, doc)
           /\ saving' = [saving EXCEPT ![w] = doc]
    /\ UNCHANGED <<keyHeap, keys, oldKeys, dekGen, created, rotated, chatVars, kmIdle,
                   chat_rooms, rclock, rpc, rlocal, rdone, listing, httpStatus, sse,
                   rotation, cipher, adapter>>

\* The ReplaceOne with upsert of the same SaveKey.
SaveKeyReplaceOne(w) ==
    /\ saving[w] # NoDoc
    /\ encryption_keys' = ReplaceOneUpsert(encryption_keys, saving[w])
    /\ saving' = [saving EXCEPT ![w] = NoDoc]
    /\ UNCHANGED <<keyHeap, keys, oldKeys, dekGen, created, rotated, chatVars, kmIdle, calls,
                   chat_rooms, rclock, rpc, rlocal, rdone, listing, httpStatus, sse,
                   rotation, cipher, adapter>>

StoreNext ==
    \/ \E w \in Writers, version \in 1..MaxVersion : SaveKeyUpdateMany(w, version)
    \/ \E w \in Writers : SaveKeyReplaceOne(w)
    \/ GetOrCreateRoomKeyCall(ChatRoom)
    \/ Tick

\* ------------------------------------------------------- the SSE adapter
channelBuffer == 1  \* constants.MessageChannelBuffer (10 in the source)

NoAdapter == [at |-> "none", clientGone |-> FALSE, msgChan |-> <<>>, errChan |-> <<>>,
              recv |-> "none", hand |-> [Id |-> 0], received |-> 0, written |-> <<>>]

\* A send on a buffered channel goes through while the buffer has room.
ChanHasRoomAlways(ch, capacity) == TRUE

ChanHasRoom(ch, capacity) == Len(ch) < capacity

adapterElsewhere == <<kmVars, chatVars, chat_rooms, rclock, rpc, rlocal, rdone, listing,
                      httpStatus, sse, rotation, cipher, saving>>

\* streamMessages once createGRPCStream has opened the upstream session:
\* setupMessageChannels makes the channels and starts the receiving goroutine,
\* and handleSSELoop begins.
setupMessageChannels ==
    /\ adapter.at = "none"
    /\ session.open
    /\ adapter' = [adapter EXCEPT !.at = "loop", !.recv = "recv"]
    /\ UNCHANGED adapterElsewhere

\* The goroutine's stream.Recv(): the next message the upstream session sent;
\* an error once the session has ended and everything sent was received, and
\* then errChan <- err and return; it waits otherwise.
streamRecv ==
    /\ adapter.recv = "recv"
    /\ IF adapter.received < Len(session.emitted)
       THEN adapter' = [adapter EXCEPT !.hand = session.emitted[adapter.received + 1],
                                       !.received = @ + 1, !.recv = "send"]
       ELSE /\ ~session.open
            /\ adapter' = [adapter EXCEPT !.errChan = Append(@, "EOF"), !.recv = "done"]
    /\ UNCHANGED adapterElsewhere

\* The goroutine's msgChan <- msg.
msgChanSend ==
    /\ adapter.recv = "send"
    /\ ChanHasRoom(adapter.msgChan, channelBuffer)
    /\ adapter' = [adapter EXCEPT !.msgChan = Append(@, adapter.hand), !.recv = "recv"]
    /\ UNCHANGED adapterElsewhere

\* The client closes the connection: c.Request.Context() is done.
ClientDisconnect ==
    /\ adapter.at = "loop"
    /\ ~adapter.clientGone
    /\ adapter' = [adapter EXCEPT !.clientGone = TRUE]
    /\ UNCHANGED adapterElsewhere

\* One pass of handleSSELoop's select, taking a case that is ready.
handleSSELoop(case) ==
    /\ adapter.at = "loop"
    /\ \/ /\ case = "done"
          /\ adapter.clientGone
          /\ adapter' = [adapter EXCEPT !.at = "returned"]
       \/ /\ case = "msg"
          /\ adapter.msgChan # <<>>
          /\ adapter' = [adapter EXCEPT !.msgChan = Tail(@),
                                        !.written = Append(@, Head(adapter.msgChan).Id)]
       \/ /\ case = "err"
          /\ adapter.errChan # <<>>
          /\ adapter' = [adapter EXCEPT !.errChan = Tail(@), !.at = "returned"]
    /\ UNCHANGED adapterElsewhere

AdapterNext ==
    \/ adapter.at = "none" /\ initializeSeenMessages(FALSE)
    \/ setupMessageChannels
    \/ \E sender \in Senders, content \in Contents, type \in MsgTypes :
          createEncryptedMessage("t1", sender, content, type)
    \/ updateRoomLastMessage("t1")
    \/ \E sendFails \in BOOLEAN : fetchAndStreamNewMessages(FALSE, sendFails)
    \/ streamRecv
    \/ msgChanSend
    \/ ClientDisconnect
    \/ \E case \in {"done", "msg", "err"} : handleSSELoop(case)

\* ------------------------------------------------------ AES-256-CTR in bytes
\* The cipher on byte strings. A byte has 4 bits here and a base64 character 3,
\* so that, as in base64, three bytes fill four characters and a shorter last
\* group is padded; the IV is one block of BlockSize bytes.
BlockSize == 1   \* aes.BlockSize, in bytes (16 in the source)
PadChar == 8     \* base64's '='
NoEnvelope == [prefix |-> "", encoded |-> <<>>]

\* cipher.NewCTR(block, iv).XORKeyStream(dst, src): byte i of src is xored with
\* byte i of the key stream, a function of the key, the IV and the position.
XORKeyStream(key, iv, src) ==
    LET RECURSIVE xor(_, _)
        xor(a, b) == IF a = 0 /\ b = 0 THEN 0 ELSE ((a + b) % 2) + 2 * xor(a \div 2, b \div 2)
        stream(i) == (key * (iv[1] + i) + 7 * i + iv[1]) % 16
    IN  [i \in 1..Len(src) |-> xor(src[i], stream(i))]

\* base64.StdEncoding.EncodeToString.
RECURSIVE EncodeToString(_)
EncodeToString(data) ==
    IF Len(data) = 0 THEN <<>>
    ELSE IF Len(data) = 1
    THEN <<data[1] \div 2, (data[1] % 2) * 4, PadChar, PadChar>>
    ELSE IF Len(data) = 2
    THEN LET v == data[1] * 16 + data[2]
         IN  <<v \div 32, (v \div 4) % 8, (v % 4) * 2, PadChar>>
    ELSE LET v == data[1] * 256 + data[2] * 16 + data[3]
         IN  <<v \div 512, (v \div 64) % 8, (v \div 8) % 8, v % 8>>
             \o EncodeToString(SubSeq(data, 4, Len(data)))

\* base64.StdEncoding.DecodeString: [err, data].
RECURSIVE DecodeString(_)
DecodeString(encoded) ==
    IF Len(encoded) = 0 THEN [err |-> FALSE, data |-> <<>>]
    ELSE IF Len(encoded) < 4 \/ encoded[1] = PadChar \/ encoded[2] = PadChar
    THEN [err |-> TRUE, data |-> <<>>]
    ELSE IF encoded[3] = PadChar
    THEN IF encoded[4] = PadChar /\ Len(encoded) = 4
         THEN [err |-> FALSE, data |-> <<(encoded[1] * 8 + encoded[2]) \div 4>>]
         ELSE [err |-> TRUE, data |-> <<>>]
    ELSE IF encoded[4] = PadChar
    THEN IF Len(encoded) = 4
         THEN LET v == (encoded[1] * 64 + encoded[2] * 8 + encoded[3]) \div 2
              IN  [err |-> FALSE, data |-> <<v \div 16, v % 16>>]
         ELSE [err |-> TRUE, data |-> <<>>]
    ELSE LET v == encoded[1] * 512 + encoded[2] * 64 + encoded[3] * 8 + encoded[4]
             rest == DecodeString(SubSeq(encoded, 5, Len(encoded)))
         IN  [err |-> rest.err,
              data |-> IF rest.err THEN <<>>
                       ELSE <<v \div 256, (v \div 16) % 16, v % 16>> \o rest.data]

\* AESCTREncryption.Encrypt with the IV the random source gave: [err, text].
\* The buffers it wipes on return are its own; the encoded string is made before.
AESCTREncrypt(key, plaintext, iv) ==
    IF plaintext = <<>> THEN [err |-> TRUE, text |-> NoEnvelope]
    ELSE LET ciphertext == XORKeyStream(key, iv, plaintext)
             result == iv \o ciphertext
         IN  [err |-> FALSE,
              text |-> [prefix |-> "aes256ctr:", encoded |-> EncodeToString(result)]]

\* A Decrypt that takes the key stream from the start of a zero IV instead of the
\* IV stored in front of the ciphertext.
AESCTRDecryptIgnoringIV(key, encryptedText) ==
    LET decoded == DecodeString(encryptedText.encoded)
    IN  [err |-> decoded.err,
         text |-> XORKeyStream(key, <<0>>, SubSeq(decoded.data, BlockSize + 1, Len(decoded.data)))]

\* AESCTREncryption.Decrypt: [err, text].
AESCTRDecrypt(key, encryptedText) ==
    LET decoded == DecodeString(encryptedText.encoded)
    IN  IF \/ encryptedText = NoEnvelope
           \/ encryptedText.prefix # "aes256ctr:"
           \/ decoded.err
           \/ Len(decoded.data) < BlockSize
        THEN [err |-> TRUE, text |-> <<>>]
        ELSE [err |-> FALSE,
              text |-> XORKeyStream(key, SubSeq(decoded.data, 1, BlockSize),
                                    SubSeq(decoded.data, BlockSize + 1, Len(decoded.data)))]

\* A caller encrypts a plaintext under a key; the IV comes from the random source.
CipherEncrypt(key, plaintext, iv) ==
    /\ LET enc == AESCTREncrypt(key, plaintext, iv)
       IN  cipher' = [key |-> key, plaintext |-> plaintext, envelope |-> enc.text,
                      encErr |-> enc.err, decKey |-> 0, decrypted |-> <<>>,
                      decErr |-> TRUE, done |-> FALSE]
    /\ UNCHANGED <<kmVars, chatVars, chat_rooms, rclock, rpc, rlocal, rdone, listing,
                   httpStatus, sse, rotation, saving, adapter>>

\* A caller decrypts the envelope under a key.
CipherDecrypt(key) ==
    /\ ~cipher.encErr
    /\ LET dec == AESCTRDecrypt(key, cipher.envelope)
       IN  cipher' = [cipher EXCEPT !.decKey = key, !.decrypted = dec.text,
                                    !.decErr = dec.err, !.done = TRUE]
    /\ UNCHANGED <<kmVars, chatVars, chat_rooms, rclock, rpc, rlocal, rdone, listing,
                   httpStatus, sse, rotation, saving, adapter>>

CipherNext ==
    LET bytes == {1, 10, 15}
        plaintexts == UNION { [1..n -> bytes] : n \in 0..MaxPlaintext }
        cipherKeys == {3, 12}
    IN  \/ \E key \in cipherKeys, plaintext \in plaintexts, iv \in {<<0>>, <<9>>} :
              CipherEncrypt(key, plaintext, iv)
        \/ \E key \in cipherKeys : CipherDecrypt(key)

\* The state after NewKeyManagerWithPersistence and NewServer: nothing cached,
\* nothing stored, rotation disabled, no call running.
Init ==
    /\ keyHeap = <<>>
    /\ keys = [r \in Rooms |-> NoKey]
    /\ oldKeys = [r \in Rooms |-> <<>>]
    /\ mu = "free"
    /\ encryption_keys = {}
    /\ dekGen = 0
    /\ policyEnabled = FALSE
    /\ now = 0
    /\ pc = [t \in KMThreads |-> "idle"]
    /\ local = [t \in KMThreads |-> [room |-> "none"]]
    /\ ret = [t \in KMThreads |-> NoRet]
    /\ calls = 0
    /\ created = [r \in Rooms |-> 0]
    /\ rotated = [r \in Rooms |-> 0]
    /\ messages = <<>>
    /\ original = <<>>
    /\ clock = 0
    /\ roomLast = [LastMessage |-> "", LastMessageAt |-> 0]
    /\ cpc = [c \in Threads |-> "idle"]
    /\ clocal = [c \in Threads |-> [message |-> 0]]
    /\ resp = [c \in Threads |-> NoResp]
    /\ page = [Success |-> FALSE, Messages |-> <<>>, NextCursor |-> NoCursor, HasMore |-> FALSE]
    /\ unread = [UserId |-> "", Success |-> FALSE, Count |-> 0, call |-> 0]
    /\ session = ClosedSession
    /\ readDone = {}
    /\ chat_rooms = <<>>
    /\ rclock = 0
    /\ rpc = [t \in Threads |-> "idle"]
    /\ rlocal = [t \in Threads |-> [req |-> NoRoom]]
    /\ rdone = <<>>
    /\ listing = NoListing
    /\ httpStatus = 0
    /\ sse = [connections |-> [ip \in SseIPs |-> 0],
              lastConnect |-> [ip \in SseIPs |-> Never],
              currentTotalConns |-> 0, time |-> 0,
              at |-> [c \in SseClients |-> "none"]]
    /\ rotation = [running |-> FALSE, stopChan |-> 0, closed |-> {}, loops |-> <<>>]
    /\ saving = [w \in Writers |-> NoDoc]
    /\ adapter = NoAdapter
    /\ cipher = [key |-> 0, plaintext |-> <<>>, envelope |-> NoEnvelope, encErr |-> TRUE,
                 decKey |-> 0, decrypted |-> <<>>, decErr |-> TRUE, done |-> FALSE]

vars == <<kmVars, chatVars, roomVars>>

SpecKM == Init /\ [][KMNext]_vars

SpecChat == Init /\ [][ChatNext]_vars

SpecStream == Init /\ [][StreamNext]_vars

SpecRooms == Init /\ [][RoomNext]_vars

SpecMembers == Init /\ [][MemberNext]_vars

SpecList == Init /\ [][ListNext]_vars

SpecGateway == Init /\ [][GatewayNext]_vars

SpecSSE == Init /\ [][SseNext]_vars

SpecAuto == Init /\ [][AutoNext]_vars

SpecCipher == Init /\ [][CipherNext]_vars

SpecLoad == Init /\ [][LoadNext]_vars

SpecStore == Init /\ [][StoreNext]_vars

SpecRotation == Init /\ [][RotationNext]_vars

SpecPages == Init /\ [][PagesNext]_vars

\* The goroutines run whenever they can: the receiving goroutine, the select of
\* handleSSELoop, and the upstream session's ticker.
SpecAdapter ==
    /\ Init /\ [][AdapterNext]_vars
    /\ WF_adapter(streamRecv)
    /\ WF_adapter(msgChanSend)
    /\ WF_adapter(\E case \in {"done", "msg", "err"} : handleSSELoop(case))
    /\ WF_session(\E sendFails \in BOOLEAN : fetchAndStreamNewMessages(FALSE, sendFails))

\* C1: for every room, whatever creations, policy rotations and forced
\* rotations have run or are running, the key store holds at most one document
\* of that room with IsActive.
ActiveDocs(roomID) == { d \in encryption_keys : d.RoomID = roomID /\ d.IsActive }

RoomDocs(roomID) == { d \in encryption_keys : d.RoomID = roomID }

C1_AtMostOneActiveKey == \A r \in Rooms : Cardinality(ActiveDocs(r)) <= 1

\* A rotation has completed: the room has two versions stored, one of them active.
C1_Witness ==
    \E r \in Rooms : /\ rotated[r] >= 1
                     /\ Cardinality(RoomDocs(r)) >= 2
                     /\ Cardinality(ActiveDocs(r)) = 1

\* C3: callers racing on GetOrCreateRoomKey for a room without a key make
\* createRoomKeyUnsafe generate at most one DEK, at most one version-1 document
\* is stored, and, as long as the room's key has not been rotated, any two
\* callers hold equal bytes.
GotKey(t, roomID) == ret[t].op = "goc" /\ ret[t].room = roomID /\ ~ret[t].err

C2_RotationPreservesHistory ==
    \A i \in 1..Len(page.Messages) :
        page.Messages[i].Content = original[page.Messages[i].Id]

\* C4: within one stream session no message id is emitted twice, however many
\* ticks have run.
EmittedIds == { session.emitted[i].Id : i \in 1..Len(session.emitted) }

C4_EmittedAtMostOnce ==
    \A i, j \in 1..Len(session.emitted) :
        session.emitted[i].Id = session.emitted[j].Id => i = j

\* The session emitted a message and a later tick fetched it again, found
\* nothing new and emitted nothing.
C4_Witness ==
    /\ session.open
    /\ Len(session.emitted) >= 1
    /\ session.lastFetchOk
    /\ session.newMessageCount = 0
    /\ session.fetched \in EmittedIds \ session.existing

\* C5: a message that existed when the session opened is never emitted on it.
C5_ExistingNeverEmitted == EmittedIds \cap session.existing = {}

\* C6: once a tick has fetched the room, every message created after the
\* session opened and before that tick is among the emitted ones, as long as
\* the session is open.  (Ticks whose fetch failed are not counted: the
\* statement is about the ticks that read the store.)
C6_EmittedByNextTick ==
    (session.open /\ session.lastFetchOk)
        => \A id \in 1..session.fetched : id \in session.existing \/ id \in EmittedIds

\* C9: a user appears at most once in the readBy of any message, and exactly
\* once in the readBy of every message a completed MarkAsRead of that user
\* targeted, whatever calls ran before, after or at the same time.
C9_ReadByExactlyOnce ==
    /\ \A i \in 1..Len(messages), u \in Users : CountOf(u, messages[i].ReadBy) <= 1
    /\ \A r \in readDone : CountOf(r[3], messages[r[2]].ReadBy) = 1

\* Two callers have both completed MarkAsRead for the same user and message.
C9_Witness ==
    \E id \in 1..Len(messages), u \in Users :
        /\ \A c \in Threads : <<c, id, u>> \in readDone
        /\ CountOf(u, messages[id].ReadBy) = 1

\* C10: the sender of a message is in the readBy of no copy of it that a
\* GetMessages page, a SendMessage response or a stream session carries (for the
\* stream: of the messages created after the session opened, the ones a session
\* is meant to emit).
SenderNotIn(m) == \A i \in 1..Len(m.ReadBy) : m.ReadBy[i] # m.SenderId

C10_SenderNeverInReadBy ==
    /\ \A i \in 1..Len(page.Messages) : SenderNotIn(page.Messages[i])
    /\ \A c \in Threads : resp[c].Success => SenderNotIn(resp[c].ChatMessage)
    /\ \A i \in 1..Len(session.emitted) :
          session.emitted[i].Id \notin session.existing => SenderNotIn(session.emitted[i])

\* C7: for every pair of distinct users the room store holds at most one direct
\* room whose members are exactly those two, whatever CreateRoom calls have run
\* or are running.
C7_OneDirectRoomPerPair ==
    \A a, b \in Users : a # b => Cardinality(DirectRoomsOf(chat_rooms, {a, b})) <= 1

\* C8: when the same direct request, naming two distinct members of which the
\* owner is one, is made twice in a row, each call running alone and the store
\* answering its listing and its insert, both calls succeed with the same room id and
\* the second adds no document; with no direct room of the two members before
\* the first call there is exactly one after the second.
SameRequestTwice ==
    /\ Len(rdone) = 2
    /\ rdone[1].req = rdone[2].req
    /\ rdone[1].req.Type = roomTypeDirect
    /\ Len(rdone[1].req.MemberIds) = 2
    /\ Cardinality(SetOf(rdone[1].req.MemberIds)) = 2
    /\ rdone[1].req.OwnerId \in SetOf(rdone[1].req.MemberIds)
    /\ rdone[1].solo /\ rdone[2].solo
    /\ rdone[1].healthy /\ rdone[2].healthy

C8_CreateDirectTwice ==
    SameRequestTwice =>
        /\ rdone[1].Success /\ rdone[2].Success
        /\ rdone[2].RoomId = rdone[1].RoomId
        /\ rdone[2].after = rdone[1].after
        /\ rdone[1].before = 0 => rdone[2].after = 1

\* The first call created the room, the second returned it.
C8_Witness ==
    /\ SameRequestTwice
    /\ rdone[1].before = 0
    /\ rdone[2].after = 1
    /\ rdone[2].RoomId = rdone[1].RoomId
    /\ rdone[2].RoomId = Len(chat_rooms)

\* C11: in every room document the owner is one of the members, whatever
\* CreateRoom, JoinRoom and LeaveRoom calls have run.
C11_OwnerIsMember ==
    \A i \in 1..Len(chat_rooms) : chat_rooms[i].OwnerID \in SetOf(chat_rooms[i].Members)

\* C12: every room document of type direct has exactly two members, whatever
\* CreateRoom, JoinRoom and LeaveRoom calls have run.
C12_DirectHasTwoMembers ==
    \A i \in 1..Len(chat_rooms) :
        chat_rooms[i].Type = roomTypeDirect => Len(chat_rooms[i].Members) = 2

\* C13: when the same user is joined to the same room twice in a row, each call
\* running alone and the store answering, both calls succeed, the second
\* leaves the member list as the first left it, the two calls create at most
\* one system message between them, and a user who was in the list at most once
\* before is in it exactly once after.
SameJoinTwice ==
    /\ Len(rdone) = 2
    /\ rdone[1].req = rdone[2].req
    /\ rdone[1].req.Type = "join"
    /\ rdone[1].solo /\ rdone[2].solo
    /\ rdone[1].healthy /\ rdone[2].healthy

C13_JoinTwice ==
    SameJoinTwice =>
        /\ rdone[1].Success /\ rdone[2].Success
        /\ rdone[2].after = rdone[1].after
        /\ rdone[2].before = rdone[1].after
        /\ rdone[1].made + rdone[2].made <= 1
        /\ rdone[1].before <= 1 => rdone[2].after = 1

\* The first call added the user and created the system message, the second
\* found the user a member.
C13_Witness ==
    /\ SameJoinTwice
    /\ rdone[1].before = 0
    /\ rdone[1].made = 1
    /\ rdone[2].made = 0
    /\ rdone[2].after = 1

\* C14: no step lowers a room's lastMessageAt: not the chat room's, which the
\* sends write, and not that of a room document, which the membership system
\* messages write; callers may overlap.
C14_LastMessageAtNeverDecreases ==
    [][/\ roomLast'.LastMessageAt >= roomLast.LastMessageAt
       /\ \A i \in 1..Len(chat_rooms) :
             chat_rooms'[i].LastMessageAt >= chat_rooms[i].LastMessageAt]_vars

\* C15: whenever the chat room's lastMessage describes a message whose type is
\* not system, it is a ciphertext made with the DEK of the room's active key
\* document.
C15_LastMessageUnderActiveDEK ==
    \A i \in 1..Len(messages) :
        (messages[i].CreatedAt = roomLast.LastMessageAt /\ messages[i].Type # systemSenderID)
        => \A d \in ActiveDocs(ChatRoom) :
              Decrypt(decryptRoomKey(d.EncryptedKey), roomLast.LastMessage) # Garbage

\* C16: every stored message of type system has the sender systemSenderID and
\* a content that is no ciphertext, whether SendMessage or a membership call
\* stored it.
IsEncrypted(text) == "key" \in DOMAIN text

C16_SystemMessagesPlain ==
    \A i \in 1..Len(messages) :
        messages[i].Type = systemSenderID
        => messages[i].SenderID = systemSenderID /\ ~IsEncrypted(messages[i].Content)

\* C17: what GetOrCreateRoomKey returned shares no bytes with the cache: were
\* the caller to overwrite the bytes it holds, the DEK cached for every room,
\* which is what later callers get, would stay as it is.
Overwritten == -1

AfterCallerWrite(heap, r) ==
    IF r.alias # NoKey THEN [heap EXCEPT ![r.alias].Value = Overwritten] ELSE heap

C17_ReturnsCopy ==
    \A t \in Threads :
        (ret[t].op = "goc" /\ ~ret[t].err)
        => \A r \in Rooms :
              keys[r] # NoKey
              => AfterCallerWrite(keyHeap, ret[t])[keys[r]].Value = keyHeap[keys[r]].Value

\* C18: a rotateKey call that found the room's key and returns an error leaves
\* the cache as it was when the call took the lock: the same key object with
\* the same bytes and version, and the same ring of archived keys.
RotationFails(t) ==
    /\ pc[t] \in {"rot_lock", "rot_replace"}
    /\ keys[local[t].room] # NoKey
    /\ pc'[t] = "idle"
    /\ ret'[t].op = "rotate" /\ ret'[t].err

CacheBefore(t) ==
    IF pc[t] = "rot_replace" THEN local[t].before
    ELSE CacheOf(keyHeap, keys, oldKeys, local[t].room)

C18_FailedRotationKeepsCache ==
    [][\A t \in KMThreads :
          RotationFails(t) => CacheOf(keyHeap', keys', oldKeys', local[t].room) = CacheBefore(t)]_vars

\* A rotation failed at the ReplaceOne, after the old key document was
\* demoted: the cache still holds version 1 with its bytes and an empty ring.
C18_Witness ==
    \E t \in Threads :
        /\ ret[t].op = "rotate" /\ ret[t].err
        /\ keys[ret[t].room] # NoKey
        /\ rotated[ret[t].room] = 1
        /\ ActiveDocs(ret[t].room) = {}
        /\ keyHeap[keys[ret[t].room]].Version = 1
        /\ keyHeap[keys[ret[t].room]].Value # 0
        /\ oldKeys[ret[t].room] = <<>>

\* C19: the messages one tick of a session emits come in ascending createdAt
\* order (of the messages created after the session opened, the ones a session
\* is meant to emit).
LastTick ==
    SubSeq(session.emitted, Len(session.emitted) - session.newMessageCount + 1,
           Len(session.emitted))

C19_TickAscending ==
    \A i, j \in 1..Len(LastTick) :
        (i < j /\ LastTick[i].Id \notin session.existing /\ LastTick[j].Id \notin session.existing)
        => LastTick[i].CreatedAt <= LastTick[j].CreatedAt

\* C20: a session that took the ctx.Done() case has returned, and nothing is
\* emitted on it from then on.
C20_NothingAfterCancel ==
    /\ [](session.cancelled => ~session.open)
    /\ [][(session.cancelled /\ session'.cancelled) => session'.emitted = session.emitted]_vars

\* The session emitted and was cancelled while the store held a message it had
\* not emitted, one a further tick would have sent.
C20_Witness ==
    /\ session.cancelled
    /\ session.emitted # <<>>
    /\ \E id \in 1..Len(messages) : id > session.fetched /\ id \notin session.seen
\* ---------------------------------------------------------------- C21
\* Every message of the room was covered by a MarkAsRead of userID that has
\* returned: none was sent after that call started.
AllMarkedBy(userID) ==
    \A m \in 1..Len(messages) : \E c \in Threads : <<c, m, userID>> \in readDone

C22_WalkListsEveryRoom ==
    (listing.Success /\ ~listing.HasMore /\ listing.base = Len(chat_rooms)) =>
        \A i \in 1..Len(chat_rooms) :
            listing.UserId \in SetOf(chat_rooms[i].Members) => chat_rooms[i].ID \in listing.got

\* ---------------------------------------------------------------- C23
\* C23: a CreateRoom or SendMessage request that fails input validation causes
\* no store write: no stored room has an owner or a member id that fails the
\* check or more members than the limit allows a request, and no stored message
\* has a sender id or a content that fails the check.
C23_InvalidRequestWritesNothing ==
    /\ \A i \in 1..Len(chat_rooms) :
          /\ ValidateUserID(chat_rooms[i].OwnerID)
          /\ \A k \in 1..Len(chat_rooms[i].Members) : ValidateUserID(chat_rooms[i].Members[k])
          /\ Len(chat_rooms[i].Members) <= maxMembers + 1
    /\ \A i \in 1..Len(messages) :
          ValidateUserID(messages[i].SenderID) /\ ValidateMessageContent(original[i])

C25_AdmittedWithinLimits ==
    /\ \A ip \in SseIPs :
          Cardinality({ c \in SseClients : ClientIP(c) = ip /\ sse.at[c] = "open" }) <= maxPerIP
    /\ Cardinality({ c \in SseClients : sse.at[c] = "open" }) <= maxTotalConns

\* ---------------------------------------------------------------- C26
\* C26: after any sequence of startAutoRotation and stopAutoRotation calls at
\* most one auto-rotation loop is running (waiting in its select on a channel
\* that is not closed), and none is after a stop that no start followed.
C26_AtMostOneLoop ==
    LET waiting == { l \in 1..Len(rotation.loops) :
                       /\ rotation.loops[l].at = "select"
                       /\ rotation.loops[l].chan \notin rotation.closed }
    IN  /\ Cardinality(waiting) <= 1
        /\ ~rotation.running => waiting = {}

\* ---------------------------------------------------------------- C27
\* C27: for every non-empty plaintext and every key, decrypting the envelope that
\* encrypt produced, under the same key, returns the original plaintext.
C27_RoundTrip ==
    (cipher.done /\ cipher.decKey = cipher.key) =>
        /\ ~cipher.decErr
        /\ cipher.decrypted = cipher.plaintext

\* A plaintext longer than one base64 group came back from its envelope.
C27_Witness ==
    /\ cipher.done /\ cipher.decKey = cipher.key
    /\ Len(cipher.plaintext) = MaxPlaintext
    /\ cipher.decrypted = cipher.plaintext
    /\ XORKeyStream(cipher.key, <<0>>, cipher.plaintext) # cipher.plaintext

\* ---------------------------------------------------------------- C28
\* C28: the bytes a caller holds from a GetOrCreateRoomKey that returned a DEK
\* are changed by no later step of the key manager, a rotation's wipe included.
C28_ReturnedDEKNeverAltered ==
    [][\A t \in Threads :
          (ret[t].op = "goc" /\ ~ret[t].err /\ ret'[t] = ret[t])
          => BytesIn(keyHeap', ret[t]) = BytesIn(keyHeap, ret[t])]_vars

\* ---------------------------------------------------------------- C29
\* C29: whenever no key-manager call is in progress, every room whose key is
\* cached as active has an active document in the key store with the cached
\* key's version, and unwrapping that document gives the cached bytes.
C29_CacheMatchesStore ==
    (mu = "free" /\ \A t \in KMThreads : Idle(t))
    => \A r \in Rooms :
          CacheHit(keyHeap, keys, r)
          => \E d \in ActiveDocs(r) :
                /\ d.KeyVersion = keyHeap[keys[r]].Version
                /\ decryptRoomKey(d.EncryptedKey) = keyHeap[keys[r]].Value

\* ---------------------------------------------------------------- C30
\* C30: a rotation that succeeds (it installs a new key in the cache) stores a
\* document one version above the key it replaced and leaves it the room's only
\* active document; an active document has the room's highest version; and
\* after n successful rotations of a room that has documents, their versions
\* are exactly 1..n+1.
Rotations(r) ==
    Cardinality({ i \in 1..Len(keyHeap) :
                    keyHeap[i].ID = r /\ keyHeap[i].Status = KeyStatusArchived })

Versions(coll, r) == { d.KeyVersion : d \in { e \in coll : e.RoomID = r } }

C31_OldKeysBounded ==
    \A r \in Rooms :
        /\ Len(oldKeys[r]) <= KeepOldKeys
        /\ \A i \in 1..Len(oldKeys[r]) : \A j \in 1..Len(keyHeap) :
              (/\ keyHeap[j].ID = r /\ keyHeap[j].Status = KeyStatusArchived
               /\ \A k \in 1..Len(oldKeys[r]) : oldKeys[r][k] # j)
              => keyHeap[j].Version < keyHeap[oldKeys[r][i]].Version

\* ---------------------------------------------------------------- C32
\* C32: when a room has several active documents and GetOrCreateRoomKey reads
\* its active key from the store, the key loaded is the active document of the
\* highest version, and after the read that document is the only active one.
C32_HighestActiveWins ==
    [][\A r \in Rooms :
          (keys[r] = NoKey /\ keys'[r] # NoKey /\ Cardinality(ActiveDocs(r)) > 1)
          => /\ \A d \in ActiveDocs(r) : d.KeyVersion <= keyHeap'[keys'[r]].Version
             /\ \A d \in encryption_keys' :
                   (d.RoomID = r /\ d.IsActive) => d.KeyVersion = keyHeap'[keys'[r]].Version]_vars

\* ---------------------------------------------------------------- C33
\* C33: when no send is in flight and the room has messages, the room's
\* lastMessageAt is the createdAt of the room's newest message.
C33_PreviewFollowsNewest ==
    ((\A c \in Threads : CIdle(c)) /\ Len(messages) > 0)
    => \A i \in 1..Len(messages) : messages[i].CreatedAt <= roomLast.LastMessageAt

\* ---------------------------------------------------------------- C34
\* C34: a tick whose fetch fails leaves the session open and emits nothing, and
\* after the next tick that reads the store every message created since the
\* session opened has been emitted exactly once.
C34_FailedTickLosesNothing ==
    [][/\ (session.open /\ ~session.tickFailed /\ session'.tickFailed)
          => (session'.open /\ session'.emitted = session.emitted)
       /\ (session.open /\ session.tickFailed /\ session'.open /\ session'.lastFetchOk)
          => \A id \in 1..Len(messages) :
                id \notin session.existing
                => Cardinality({ i \in 1..Len(session'.emitted) :
                                   session'.emitted[i].Id = id }) = 1]_vars

C39_DisconnectEndsBoth ==
    (adapter.clientGone /\ adapter.at = "returned") ~> (adapter.recv = "done" /\ ~session.open)

\* ---------------------------------------------------------------- C36
\* C36: a walk through the room's pages, from the empty cursor to the page
\* without hasMore, returns every message of the room exactly once, newest
\* first, messages created within one second included.
C36_WalkReturnsEveryMessage ==
    [][page' # page
       => /\ Len(page'.Messages) = Len(messages)
          /\ \A i \in 1..Len(page'.Messages) : page'.Messages[i].Id = Len(messages) - i + 1]_vars

\* ---------------------------------------------------------------- C37
\* C37: when two JoinRoom calls for the same user and room overlap, the store
\* answering both, and the user was not a member when the first to return
\* started, the user is in the member list exactly once after both and the
\* two calls create exactly one 'joined' system message between them.
C37_ConcurrentJoinOnce ==
    (/\ Len(rdone) = 2
     /\ rdone[1].req = rdone[2].req
     /\ rdone[1].req.Type = "join"
     /\ ~rdone[1].solo /\ ~rdone[2].solo
     /\ rdone[1].healthy /\ rdone[2].healthy
     /\ rdone[1].before = 0)
    => /\ rdone[2].after = 1
       /\ rdone[1].made + rdone[2].made = 1

\* ---------------------------------------------------------------- C38
\* C38: in every state of the SSE limiter, whatever the interleaving of
\* admissions, disconnects and cleanup passes, each ip's connection count is the
\* number of its registered sessions still open, the total counter is the sum
\* of the per-ip counts and the number of all such sessions, and no counter is
\* negative.
C38_CountersAgree ==
    LET OpenOf(ip) == { c \in SseClients : ClientIP(c) = ip /\ sse.at[c] = "open" }
        RECURSIVE Sum(_)
        Sum(ips) == IF ips = {} THEN 0
                    ELSE LET ip == CHOOSE x \in ips : TRUE
                         IN  sse.connections[ip] + Sum(ips \ {ip})
    IN  /\ \A ip \in SseIPs : /\ sse.connections[ip] >= 0
                              /\ sse.connections[ip] = Cardinality(OpenOf(ip))
        /\ sse.currentTotalConns >= 0
        /\ sse.currentTotalConns = Sum(SseIPs)
        /\ sse.currentTotalConns = Cardinality({ c \in SseClients : sse.at[c] = "open" })

\* One session is open whose ip's lastConnect a cleanup pass has dropped, and
\* the other ip has connected and has no session left.
C38_Witness ==
    /\ sse.connections["ip2"] = 1 /\ sse.lastConnect["ip2"] = Never
    /\ sse.connections["ip1"] = 0 /\ sse.lastConnect["ip1"] # Never
    /\ sse.currentTotalConns = 1

\* ---------------------------------------------------------------- C40
\* C40: a room's key that a rotation by the automatic check produced is not
\* replaced by a later check before rotationInterval has passed since that
\* rotation: when the check's rotateKey replaces a rotated key, more than
\* RotationInterval lies between that key's RotatedAt and now.
C40_NoRotationWithinInterval ==
    [][\A r \in Rooms :
          (/\ keys[r] # NoKey
           /\ keys'[r] # keys[r]
           /\ pc[AutoThread] \in {"rot_lock", "rot_replace"}
           /\ pc'[AutoThread] # pc[AutoThread] \/ local'[AutoThread] # local[AutoThread]
           /\ local[AutoThread].room = r
           /\ keyHeap[keys[r]].Version > 1)
          => now - keyHeap[keys[r]].RotatedAt > RotationInterval]_vars

====
